---- MODULE Spec2Model ----
(***************************************************************************)
(* Model of the task-tool extension (extensions/task-tool/src/extension.ts, *)
(* here src/unnamed/part_001): the parallel orchestrator with its          *)
(* concurrency-limited scheduler, and the subprocess task runner with its  *)
(* abort handling.                                                         *)
(*                                                                         *)
(*   Spec      parallel mode of execute(): placeholders, progress updates, *)
(*             mapWithConcurrencyLimit and the per-item task function.     *)
(*   TaskSpec  runSingleTask for one task of a call: spawn, stdout events, *)
(*             process exit / close / error, the abort signal and the      *)
(*             grace timer.  FairTaskSpec adds the scheduling fairness.    *)
(*   ChainSpec chain mode of execute(): pending placeholders, the step     *)
(*             loop with buildChainPrompt, progress updates, the stop on   *)
(*             a failed step or a failed resolution.                       *)
(*   CallSpec  execute() from its parameters on: normalizeTaskParams       *)
(*             (task-params.ts), the fork prerequisite, preparation and    *)
(*             the subprocesses each branch spawns.                        *)
(*   ForkSpec  the fork sessions of the concurrent tasks of one call:      *)
(*             createForkSession, cleanupForkSession, and the argument     *)
(*             vector each subprocess is spawned with.                     *)
(*   ParseSpec parseTaskEntries (task-params.ts) on lists of raw entries.  *)
(*   ModelSpec the model of each task: per-item override, shared default,  *)
(*             model of the parent session; parseProviderModel.            *)
(*   ConfigSpec the thinking level and the built-in tools of the steps of  *)
(*             one call, the parent session changing meanwhile.            *)
(*   UsageSpec aggregateUsage over the results of a call.                  *)
(*   SkillSpec the skill-task extension (skill-task/src/extension.ts):     *)
(*             the input, tool_call and turn_end handlers.                 *)
(*   RangeSpec mergeRanges of the files extension (src/unnamed/part_008).  *)
(*   LineSpec  the stdout stream of one subprocess: chunks, the line       *)
(*             buffer, processLine and the close handler.                  *)
(***************************************************************************)
EXTENDS Integers, Sequences, FiniteSets, TLC

(* ------------------------------ bounds --------------------------------- *)
\* largest number of items of a parallel request that is explored
MaxItems == 4
\* largest configured concurrency bound (maxConcurrency option) explored
MaxConcurrency == 3
\* largest number of stdout events of one subprocess that is explored
MaxEvents == 2
\* largest number of steps of a chain that is explored
MaxSteps == 3
\* largest value of the maxParallelTasks option that is explored
MaxParallel == 2
\* number of concurrent tasks whose fork sessions are explored
MaxForkTasks == 2

(* ------------------------- program constants --------------------------- *)
\* exitCode sentinel of a task that has not started (chain placeholders)
PendingExitCode == -2
\* exitCode sentinel of a task that is running
RunningExitCode == -1
\* createPlaceholderResult's default for its exitCode parameter
DefaultPlaceholderExitCode == -1

Min(a, b) == IF a <= b THEN a ELSE b
Max(a, b) == IF a >= b THEN a ELSE b

VARIABLES
    \* ---- parallel mode (Spec) ----
    callPc,        \* "init" | "running" | "returned": position of execute()
    numItems,      \* prepared.executions.length
    concurrency,   \* merged.maxConcurrency
    nextIndex,     \* mapWithConcurrencyLimit: let nextIndex
    workers,       \* worker -> [st: "await" | "resume" | "done", idx]
    results,       \* mapWithConcurrencyLimit: results[] (-1: empty slot, else the
                   \* index of the task whose result object is stored there)
    task,          \* item index -> "unstarted" | "running" | "closed" | "settled"
    started,       \* item index -> number of times fn was started for it
    curExit,       \* item index -> exitCode of that task's currentResult object
    curStop,       \* item index -> stopReason of that object ("none": unset)
    allResults,    \* item index -> "placeholder" | "live" (aliases currentResult)
    lastUpdate,    \* exit codes shown by the latest onUpdate (<<>>: none yet)
    successCount,  \* the final tally (-1 until the call returns)
    outOfOrder,    \* history: some item settled before an item ahead of it
    \* ---- one task of a call (TaskSpec) ----
    taskPc,        \* "start" | "spawned" | "cleanup" | "returned": runSingleTask
    fork,          \* options.fork
    result,        \* currentResult: [exitCode, stopReason]
    resolved,      \* the promise around the subprocess has been resolved
    proc,          \* "none" | "alive" | "exited" | "closed" | "spawnfail"
    procCode,      \* code of the exit/close event: <<c>>, or <<>> for null
    ignoresTerm,   \* the subprocess does not die on SIGTERM
    signalAborted, \* signal.aborted
    listening,     \* the "abort" listener is registered and has not run
    aborted,       \* attachAbortSignal: let aborted
    killed,        \* proc.killed
    termDelivered, \* SIGTERM reached the live subprocess
    killDelivered, \* SIGKILL reached the live subprocess
    timer,         \* the 5000 ms timer: "none" | "armed" | "fired"
    events,        \* number of stdout events so far
    \* history of the task, read by the properties only
    abortAt,       \* state of proc when the signal was raised ("never" if not)
    streamStop,    \* last stop reason carried by an accepted assistant message
    everBadStop,   \* some accepted assistant message carried "error"/"aborted"
    abortedAtClose,\* the close handler found isAborted() true
    returned,      \* the result as it was when runSingleTask returned
    \* ---- chain mode (ChainSpec) ----
    chPc,          \* "loop" | "running" | "returned": position of execute()
    chItems,       \* normalized.value.items: [prompt, resolves]
    chIndex,       \* the loop's index (1-based)
    chResults,     \* results[]: [prompt, exitCode, stopReason]
    previousOutput,\* let previousOutput
    chOutputs,     \* history: final text output of each finished step
    chSpawned,     \* history: steps for which runSingleTask spawned a subprocess
    chUpdate,      \* details.results of the latest onUpdate (<<>>: none yet)
    chReturn,      \* what execute() returned: [kind, results, isError]
    \* ---- one call of execute(), from its parameters on (CallSpec) ----
    cPc,           \* "normalize" | "forkcheck" | "dispatch" | "run" | "chain"
                   \* | "returned": position of execute()
    reqType,       \* params.type
    rawTasks,      \* params.tasks: [valid, fork, resolves]
    maxParallelTasks, \* merged.maxParallelTasks
    hasSessionFile,\* ctx.sessionManager.getSessionFile() gives a path
    cItems,        \* normalized.value.items: [fork, resolves]
    cIndex,        \* chain: the loop's index (1-based)
    cRan,          \* items for which runSingleTask has run
    cSpawned,      \* items for which a subprocess was spawned
    cResponse,     \* what execute() returned: [kind, error]
    \* ---- fork sessions of concurrent tasks (ForkSpec) ----
    fkPc,          \* task -> "start" | "copy" | "running" | "cleanup" | "returned"
    fkFork,        \* task -> options.fork
    fkSession,     \* task -> let forkSession (0: undefined, else the directory)
    fkDirs,        \* directory -> [state, rmCalls, owner, givenTo]
    fkHow,         \* task -> how its run ended
    fkCallPc,      \* "running" | "returned": the top-level call
    fkInput,       \* [subprocessArgs, subprocessPrompt] of the tasks
    fkArgs,        \* task -> the args its subprocess was spawned with
    \* ---- parseTaskItems on the entries of params.tasks (ParseSpec) ----
    pPc,           \* "called" | "returned"
    pRaw,          \* rawTasks: the entries as received
    pOut,          \* the value returned: [ok, items, failedAt]
    \* ---- the models of the items of one request (ModelSpec) ----
    mPc,           \* "called" | "returned"
    mItems,        \* tasks[i].model as received, for two items
    mShared,       \* params.model as received
    mCtx,          \* ctx.model: <<>> or <<[provider, modelId]>>
    mOut,          \* [status, models]: how the call went on, and the model
                   \* resolved for each item
    \* ---- thinking level and tools of the steps of a chain (ConfigSpec) ----
    gPc,           \* "start" | "loop" | "returned": position of execute()
    parentThinking,\* what pi.getThinkingLevel() returns now
    parentTools,   \* what pi.getActiveTools() returns now
    inheritedThinking, \* const inheritedThinking of execute()
    builtInTools,  \* const builtInTools of execute()
    gItems,        \* the thinking field of each item ("none": omitted)
    gDefault,      \* normalized.value.thinking
    gStep,         \* number of steps resolved and spawned
    gArgs,         \* the thinking and tool arguments of the latest spawn
    \* ---- aggregateUsage (UsageSpec) ----
    uPc,           \* "called" | "returned"
    uResults,      \* the usage of each result passed
    uTotal,        \* the UsageStats returned
    \* ---- the skill-task extension (SkillSpec) ----
    kTaskActive,   \* extensionApi.getActiveTools() includes "task"
    lastPrompt,    \* let lastPrompt (<<>>: null)
    pendingSkill,  \* let pendingSkill (<<>>: null)
    appliedOverrideSkills, \* let appliedOverrideSkills
    kAwait,        \* the skill of a handler suspended in applySkillOverrides
    kMessages,     \* skills for which sendUserMessage was called
    kLast,         \* what the latest handler did: [handler, skill, result,
                   \* sent, prompt]
    \* ---- mergeRanges of the files extension (RangeSpec) ----
    rPc,           \* "called" | "returned"
    rExisting,     \* the argument existing
    rIncoming,     \* the argument incoming
    rOut,          \* the value returned
    \* ---- the stdout stream of one task (LineSpec) ----
    lPc,           \* "open" | "closed" | "raised": the stream, or a handler
                   \* that threw
    buffer,        \* let buffer: the unterminated rest of the stream
    lResult,       \* currentResult: [messages, turns, input, contextTokens,
                   \* stopReason]
    lUpdates,      \* number of calls of emitUpdate
    lSkipped,      \* number of calls of processLine that returned early
    lChunks,       \* number of "data" events handled
    lChunk         \* the chunk of the latest "data" event

schedVars == <<callPc, numItems, concurrency, nextIndex, workers, results, task,
               started, curExit, curStop, allResults, lastUpdate, successCount,
               outOfOrder>>

procVars == <<proc, procCode, ignoresTerm, events>>
abortVars == <<signalAborted, listening, aborted, killed, termDelivered,
               killDelivered, timer, abortAt>>
runVars == <<taskPc, fork, result, resolved, streamStop, everBadStop,
             abortedAtClose, returned>>
taskVars == <<procVars, abortVars, runVars>>

chainVars == <<chPc, chItems, chIndex, chResults, previousOutput, chOutputs,
               chSpawned, chUpdate, chReturn>>

callVars == <<cPc, reqType, rawTasks, maxParallelTasks, hasSessionFile, cItems,
              cIndex, cRan, cSpawned, cResponse>>

forkVars == <<fkPc, fkFork, fkSession, fkDirs, fkHow, fkCallPc, fkInput, fkArgs>>

parseVars == <<pPc, pRaw, pOut>>

\* the parts that are functions of their arguments
modelVars == <<mPc, mItems, mShared, mCtx, mOut>>
configVars == <<gPc, parentThinking, parentTools, inheritedThinking,
                builtInTools, gItems, gDefault, gStep, gArgs>>
usageVars == <<uPc, uResults, uTotal>>
skillVars == <<kTaskActive, lastPrompt, pendingSkill, appliedOverrideSkills,
               kAwait, kMessages, kLast>>
rangeVars == <<rPc, rExisting, rIncoming, rOut>>
lineVars == <<lPc, buffer, lResult, lUpdates, lSkipped, lChunks, lChunk>>
fnVars == <<parseVars, modelVars, configVars, usageVars, skillVars, rangeVars,
            lineVars>>

vars == <<schedVars, taskVars, chainVars, callVars, forkVars, fnVars>>

\* everything but the variables of one part
notSchedVars == <<taskVars, chainVars, callVars, forkVars, fnVars>>
notTaskVars == <<schedVars, chainVars, callVars, forkVars, fnVars>>
notChainVars == <<schedVars, taskVars, callVars, forkVars, fnVars>>
notCallVars == <<schedVars, taskVars, chainVars, forkVars, fnVars>>
notForkVars == <<schedVars, taskVars, chainVars, callVars, fnVars>>
procedureVars == <<schedVars, taskVars, chainVars, callVars, forkVars>>
notParseVars ==
    <<procedureVars, modelVars, configVars, usageVars, skillVars, rangeVars,
      lineVars>>
notModelVars ==
    <<procedureVars, parseVars, configVars, usageVars, skillVars, rangeVars,
      lineVars>>
notConfigVars ==
    <<procedureVars, parseVars, modelVars, usageVars, skillVars, rangeVars,
      lineVars>>
notUsageVars ==
    <<procedureVars, parseVars, modelVars, configVars, skillVars, rangeVars,
      lineVars>>
notRangeVars ==
    <<procedureVars, parseVars, modelVars, configVars, usageVars, skillVars,
      lineVars>>
notLineVars ==
    <<procedureVars, parseVars, modelVars, configVars, usageVars, skillVars,
      rangeVars>>
notSkillVars ==
    <<procedureVars, parseVars, modelVars, configVars, usageVars, rangeVars,
      lineVars>>

\* the values of the variables of a part of the program that is not running
SchedIdle ==
    /\ callPc = "off" /\ numItems = 0 /\ concurrency = 0 /\ nextIndex = 0
    /\ workers = <<>> /\ results = <<>> /\ task = <<>> /\ started = <<>>
    /\ curExit = <<>> /\ curStop = <<>> /\ allResults = <<>>
    /\ lastUpdate = <<>>
    /\ successCount = -1 /\ outOfOrder = FALSE

TaskIdle ==
    /\ taskPc = "off" /\ fork = FALSE
    /\ result = [exitCode |-> RunningExitCode, stopReason |-> "none"]
    /\ resolved = FALSE /\ proc = "none" /\ procCode = <<>>
    /\ ignoresTerm = FALSE /\ signalAborted = FALSE /\ listening = FALSE
    /\ aborted = FALSE /\ killed = FALSE /\ termDelivered = FALSE
    /\ killDelivered = FALSE /\ timer = "none" /\ events = 0
    /\ abortAt = "never" /\ streamStop = "none" /\ everBadStop = FALSE
    /\ abortedAtClose = FALSE
    /\ returned = [exitCode |-> RunningExitCode, stopReason |-> "none"]

ChainIdle ==
    /\ chPc = "off" /\ chItems = <<>> /\ chIndex = 0 /\ chResults = <<>>
    /\ previousOutput = <<>> /\ chOutputs = <<>> /\ chSpawned = {}
    /\ chUpdate = <<>>
    /\ chReturn = [kind |-> "none", results |-> <<>>, isError |-> FALSE]

CallIdle ==
    /\ cPc = "off" /\ reqType = "none" /\ rawTasks = <<>>
    /\ maxParallelTasks = 0 /\ hasSessionFile = FALSE /\ cItems = <<>>
    /\ cIndex = 0 /\ cRan = {} /\ cSpawned = {}
    /\ cResponse = [kind |-> "none", error |-> "none"]

ForkIdle ==
    /\ fkPc = <<>> /\ fkFork = <<>> /\ fkSession = <<>> /\ fkDirs = <<>>
    /\ fkHow = <<>> /\ fkCallPc = "off"
    /\ fkInput = <<>> /\ fkArgs = <<>>

ParseIdle ==
    /\ pPc = "off" /\ pRaw = <<>>
    /\ pOut = [ok |-> FALSE, items |-> <<>>, failedAt |-> 0]

ModelIdle ==
    /\ mPc = "off" /\ mItems = <<>> /\ mShared = <<>> /\ mCtx = <<>>
    /\ mOut = [status |-> "none", models |-> <<>>]

ConfigIdle ==
    /\ gPc = "off" /\ parentThinking = "off" /\ parentTools = {}
    /\ inheritedThinking = "off" /\ builtInTools = {} /\ gItems = <<>>
    /\ gDefault = "inherit" /\ gStep = 0
    /\ gArgs = [thinking |-> "off", flag |-> "none", tools |-> {}]

\* { input: 0, output: 0, cacheRead: 0, cacheWrite: 0, cost: 0,
\*   contextTokens: 0, turns: 0 }
ZeroUsage ==
    [input |-> 0, output |-> 0, cacheRead |-> 0, cacheWrite |-> 0,
     cost |-> 0, contextTokens |-> 0, turns |-> 0]

UsageIdle == uPc = "off" /\ uResults = <<>> /\ uTotal = ZeroUsage

NoHandler ==
    [handler |-> "none", skill |-> "none", result |-> "none",
     sent |-> FALSE, prompt |-> "none"]

SkillIdle ==
    /\ kTaskActive = FALSE /\ lastPrompt = <<>> /\ pendingSkill = <<>>
    /\ appliedOverrideSkills = {} /\ kAwait = <<>> /\ kMessages = {}
    /\ kLast = NoHandler

RangeIdle ==
    /\ rPc = "off"
    /\ rExisting = [type |-> "undefined", text |-> <<>>]
    /\ rIncoming = [type |-> "undefined", text |-> <<>>]
    /\ rOut = [type |-> "undefined", text |-> <<>>]

\* currentResult as runSingleTask creates it
NewResult ==
    [messages |-> <<>>, turns |-> 0, input |-> 0, output |-> 0,
     cacheRead |-> 0, cacheWrite |-> 0, cost |-> 0, contextTokens |-> 0,
     model |-> "", stopReason |-> "none", errorMessage |-> ""]

LineIdle ==
    /\ lPc = "off" /\ buffer = <<>> /\ lResult = NewResult /\ lUpdates = 0
    /\ lSkipped = 0 /\ lChunks = 0 /\ lChunk = <<>>

FnIdle ==
    /\ ParseIdle /\ ModelIdle /\ ConfigIdle /\ UsageIdle /\ SkillIdle
    /\ RangeIdle /\ LineIdle

ProcedureIdle == SchedIdle /\ TaskIdle /\ ChainIdle /\ CallIdle /\ ForkIdle

(* ======================================================================= *)
(*                       parallel mode: the scheduler                      *)
(* ======================================================================= *)

Items == 0 .. (numItems - 1)

\* stop reasons an assistant message can carry ("none": the field is absent)
StopReasons == {"none", "stop", "error", "aborted"}

\* close codes of a subprocess that could not be spawned: the negated errno
\* (ENOENT, EACCES)
SpawnErrorCodes == {<<-2>>, <<-13>>}

\* (variant: a missing code counts as exit code 1)
CoalesceAsFailure(code, dflt) == IF code = <<>> THEN 1 ELSE code[1]

\* code ?? 0
Coalesce(code, dflt) == IF code = <<>> THEN dflt ELSE code[1]

\* isTaskError
IsTaskError(r) ==
    r.exitCode > 0 \/ r.stopReason = "error" \/ r.stopReason = "aborted"

\* getTaskStatus (isTaskPending, isTaskRunning)
GetTaskStatus(r) ==
    IF r.exitCode = PendingExitCode THEN "Pending"
    ELSE IF r.exitCode = RunningExitCode THEN "Running"
    ELSE IF IsTaskError(r) THEN "Failed" ELSE "Done"

\* the results a task of a parallel call ends with, as explored here: Done,
\* Failed by its exit code, Failed by its stop reason
ParallelOutcomes ==
    {[exitCode |-> 0, stopReason |-> "stop"],
     [exitCode |-> 1, stopReason |-> "stop"],
     [exitCode |-> 0, stopReason |-> "error"]}

\* the result object of item i
ResultOf(ce, cs, i) == [exitCode |-> ce[i], stopReason |-> cs[i]]

\* (variant: the tally looks at the exit code only)
SuccessCountByExitCode(res, ce, cs) ==
    Cardinality({i \in DOMAIN res : res[i] \in DOMAIN ce /\ ~(ce[res[i]] > 0)})

\* successCount = results.filter((result) => !isTaskError(result)).length
SuccessCount(res, ce, cs) ==
    Cardinality({i \in DOMAIN res : res[i] \in DOMAIN ce
                                    /\ ~IsTaskError(ResultOf(ce, cs, res[i]))})

\* (variant: a pool as large as the item list)
LimitUnbounded(c, n) == Max(1, n)

\* limit = Math.max(1, Math.min(concurrency, items.length))
Limit(c, n) == Max(1, Min(c, n))

\* runWorker: const currentIndex = nextIndex
ClaimedIndex(next) == next

\* (variant: the claim does not advance nextIndex)
NextNotAdvanced(next) == next

\* runWorker: nextIndex += 1
NextAfterClaim(next) == next + 1

\* (variant: values are stored in completion order, in the first empty slot)
StoreInCompletionOrder(res, currentIndex, value) ==
    LET empty == {k \in DOMAIN res : res[k] = -1}
    IN  IF empty = {} THEN res
        ELSE [res EXCEPT ![CHOOSE k \in empty : \A j \in empty : k <= j] = value]

\* results[currentIndex] = await fn(items[currentIndex], currentIndex)
StoreResult(res, currentIndex, value) == [res EXCEPT ![currentIndex] = value]

\* createPlaceholderResult(execution.task.item, index + 1, thinking, model):
\* the parallel placeholders are built without the exitCode argument
ParallelPlaceholderExitCode == DefaultPlaceholderExitCode

\* the exit code a progress update shows for item i
ShownExit(all, cur, i) ==
    IF all[i] = "placeholder" THEN ParallelPlaceholderExitCode ELSE cur[i]

\* details: makeDetails([...allResults]) as emitted by emitParallelUpdate
Snapshot(all, cur) == [k \in 1 .. numItems |-> ShownExit(all, cur, k - 1)]

\* One call of runWorker by worker w in the state (next, ws, tk, st, ce):
\* claim an index, return if it is past the end, else start fn for it, which
\* runs runSingleTask up to its first suspension (currentResult.exitCode = -1).
RunWorker(w, next, ws, tk, st, ce) ==
    LET currentIndex == ClaimedIndex(next)
        next2 == NextAfterClaim(next)
    IN  IF currentIndex >= numItems
        THEN [next |-> next2,
              ws |-> [ws EXCEPT ![w] = [st |-> "done", idx |-> -1]],
              tk |-> tk, st |-> st, ce |-> ce]
        ELSE [next |-> next2,
              ws |-> [ws EXCEPT ![w] = [st |-> "await", idx |-> currentIndex]],
              tk |-> [tk EXCEPT ![currentIndex] = "running"],
              st |-> [st EXCEPT ![currentIndex] = Min(@ + 1, 2)],
              ce |-> [ce EXCEPT ![currentIndex] = RunningExitCode]]

\* new Array(limit).fill(null).map(async () => runWorker()): the workers are
\* started one after the other, synchronously
RECURSIVE StartWorkers(_, _, _)
StartWorkers(w, lim, s) ==
    IF w > lim THEN s
    ELSE StartWorkers(w + 1, lim, RunWorker(w, s.next, s.ws, s.tk, s.st, s.ce))

Init ==
    /\ callPc = "init"
    /\ numItems \in 1 .. MaxItems
    /\ concurrency \in 0 .. MaxConcurrency
    /\ nextIndex = 0
    /\ workers = <<>>
    /\ results = <<>>
    /\ task = [i \in Items |-> "unstarted"]
    /\ started = [i \in Items |-> 0]
    /\ curExit = [i \in Items |-> PendingExitCode]
    /\ curStop = [i \in Items |-> "none"]
    /\ allResults = [i \in Items |-> "placeholder"]
    /\ lastUpdate = <<>>
    /\ successCount = -1
    /\ outOfOrder = FALSE
    /\ TaskIdle /\ ChainIdle /\ CallIdle /\ ForkIdle /\ FnIdle

\* execute(), parallel branch: build the placeholders, emit the first update,
\* enter mapWithConcurrencyLimit and start the workers.
Execute ==
    /\ callPc = "init"
    /\ LET lim == Limit(concurrency, numItems)
           s0 == [next |-> 0,
                  ws |-> [w \in 1 .. lim |-> [st |-> "new", idx |-> -1]],
                  tk |-> task, st |-> started, ce |-> curExit]
           s1 == StartWorkers(1, lim, s0)
       IN  /\ lastUpdate' = Snapshot(allResults, curExit)
           /\ results' = [i \in Items |-> -1]
           /\ nextIndex' = s1.next
           /\ workers' = s1.ws
           /\ task' = s1.tk
           /\ started' = s1.st
           /\ curExit' = s1.ce
    /\ callPc' = "running"
    /\ UNCHANGED <<curStop, numItems, concurrency, allResults, successCount,
                   outOfOrder, notSchedVars>>

\* An accepted stdout event of task i: onResultUpdate(partial) stores the live
\* result object in allResults and emits an update.
TaskEvent(i) ==
    /\ callPc = "running"
    /\ task[i] = "running"
    /\ allResults' = [allResults EXCEPT ![i] = "live"]
    /\ lastUpdate' = Snapshot(allResults', curExit)
    /\ UNCHANGED <<curStop, callPc, numItems, concurrency, nextIndex, workers, results,
                   task, started, curExit, successCount, outOfOrder, notSchedVars>>

\* The subprocess of task i ends (close, or error) with outcome o: the exit
\* code is written to currentResult, which has the stop reason of the stream,
\* and the promise inside runSingleTask resolves.
TaskClose(i, o) ==
    /\ callPc = "running"
    /\ task[i] = "running"
    /\ curExit' = [curExit EXCEPT ![i] = o.exitCode]
    /\ curStop' = [curStop EXCEPT ![i] = o.stopReason]
    /\ task' = [task EXCEPT ![i] = "closed"]
    /\ UNCHANGED <<callPc, numItems, concurrency, nextIndex, workers, results,
                   started, allResults, lastUpdate, successCount, outOfOrder, notSchedVars>>

\* runSingleTask returns for item i; the task function stores the result in
\* allResults, emits an update and returns the result: its promise settles.
FnReturn(i) ==
    /\ callPc = "running"
    /\ task[i] = "closed"
    /\ allResults' = [allResults EXCEPT ![i] = "live"]
    /\ lastUpdate' = Snapshot(allResults', curExit)
    /\ task' = [task EXCEPT ![i] = "settled"]
    /\ workers' = [w \in DOMAIN workers |->
                     IF workers[w].st = "await" /\ workers[w].idx = i
                     THEN [workers[w] EXCEPT !.st = "resume"] ELSE workers[w]]
    /\ outOfOrder' = (outOfOrder \/ \E j \in Items : j < i /\ task[j] # "settled")
    /\ UNCHANGED <<curStop, callPc, numItems, concurrency, nextIndex, results, started,
                   curExit, successCount, notSchedVars>>

\* The worker that awaited fn continues: it stores the value at currentIndex
\* and calls runWorker again.
WorkerResume(w) ==
    /\ callPc = "running"
    /\ w \in DOMAIN workers
    /\ workers[w].st = "resume"
    /\ results' = StoreResult(results, workers[w].idx, workers[w].idx)
    /\ LET s == RunWorker(w, nextIndex, workers, task, started, curExit)
       IN  /\ nextIndex' = s.next
           /\ workers' = s.ws
           /\ task' = s.tk
           /\ started' = s.st
           /\ curExit' = s.ce
    /\ UNCHANGED <<curStop, callPc, numItems, concurrency, allResults, lastUpdate,
                   successCount, outOfOrder, notSchedVars>>

\* Promise.all resolves once every worker returned; execute() computes the
\* tally over results and returns.
Return ==
    /\ callPc = "running"
    /\ \A w \in DOMAIN workers : workers[w].st = "done"
    /\ successCount' = SuccessCount(results, curExit, curStop)
    /\ callPc' = "returned"
    /\ UNCHANGED <<curStop, numItems, concurrency, nextIndex, workers, results, task,
                   started, curExit, allResults, lastUpdate, outOfOrder,
                   notSchedVars>>

Next ==
    \/ Execute
    \/ \E i \in Items : TaskEvent(i)
    \/ \E i \in Items, o \in ParallelOutcomes : TaskClose(i, o)
    \/ \E i \in Items : FnReturn(i)
    \/ \E w \in 1 .. MaxItems + 1 : WorkerResume(w)
    \/ Return

Spec == Init /\ [][Next]_vars

(* ----------------------- claims on parallel mode ----------------------- *)

\* task functions that were started and whose promise has not settled
InFlight == {i \in Items : task[i] \in {"running", "closed"}}

AllWorkersDone ==
    /\ callPc \in {"running", "returned"}
    /\ \A w \in DOMAIN workers : workers[w].st = "done"

\* C1: with a concurrency bound C >= 1, at most min(C, N) task functions are
\* started and not yet settled, in every reachable state.
C1_AtMostLimitInFlight ==
    concurrency >= 1 => Cardinality(InFlight) <= Min(concurrency, numItems)

\* the pool is full with C < N, after a first task settled and its worker
\* claimed the next item
C1_Witness ==
    /\ concurrency >= 1
    /\ concurrency < numItems
    /\ Cardinality(InFlight) = concurrency
    /\ \E i \in Items : task[i] = "settled"

\* C2: no item's task function is started twice, and once every worker has
\* returned every item has been started exactly once.
C2_EachIndexClaimedOnce ==
    /\ \A i \in Items : started[i] <= 1
    /\ AllWorkersDone => \A i \in Items : started[i] = 1

\* all workers returned, with more items than workers
C2_Witness ==
    /\ AllWorkersDone
    /\ Cardinality(DOMAIN workers) >= 2
    /\ numItems > Cardinality(DOMAIN workers)

\* C3: when mapWithConcurrencyLimit has returned, the output has one slot per
\* item and slot i holds the result the task function produced for item i.
C3_ResultsInInputOrder ==
    callPc = "returned" =>
        /\ DOMAIN results = Items
        /\ \A i \in Items : results[i] = i /\ task[i] = "settled"

\* returned after some item settled before an item ahead of it, with more
\* items than workers
C3_Witness ==
    /\ callPc = "returned"
    /\ outOfOrder
    /\ numItems > Cardinality(DOMAIN workers)
    /\ Cardinality(DOMAIN workers) >= 2

\* C4: with C < N, no progress update shows more than C tasks Running
\* (exitCode -1).
C4_UpdatesShowAtMostCRunning ==
    (concurrency >= 1 /\ concurrency < numItems /\ lastUpdate # <<>>) =>
        Cardinality({k \in DOMAIN lastUpdate : lastUpdate[k] = RunningExitCode})
            <= concurrency


\* C17: a parallel call returns only after every one of its items was run,
\* once, to a finished state (Done or Failed), whichever of them failed, and
\* its success tally is the number of results that are not Failed.
C17_FailedTaskDoesNotStopOthers ==
    callPc = "returned" =>
        /\ \A i \in Items :
              /\ task[i] = "settled" /\ started[i] = 1
              /\ GetTaskStatus(ResultOf(curExit, curStop, i)) \in {"Done", "Failed"}
        /\ successCount =
              Cardinality({i \in Items :
                  GetTaskStatus(ResultOf(curExit, curStop, i)) # "Failed"})

\* with one worker, the first of three or more items failed by its stop reason
\* alone and every later item ended Done
C17_Witness ==
    /\ callPc = "returned"
    /\ concurrency = 1
    /\ numItems >= 3
    /\ curExit[0] = 0 /\ curStop[0] = "error"
    /\ successCount = numItems - 1


(* ======================================================================= *)
(*                 runSingleTask: one subprocess task                      *)
(* ======================================================================= *)

\* (variant: the stop reason is captured only if not already set)
HandleStopReasonFirstWins(old, new) == IF old = "none" THEN new ELSE old

\* handleEventMessage: if (message.stopReason) result.stopReason = message.stopReason
HandleStopReason(old, new) == IF new # "none" THEN new ELSE old

\* (variant: the close handler leaves the stop reason alone)
CloseStopReasonKept(isAborted, sr) == sr

\* (variant: the close handler always marks the task aborted)
CloseStopReasonAlways(isAborted, sr) == "aborted"

\* close handler: if (abortState.isAborted()) currentResult.stopReason = "aborted"
CloseStopReason(isAborted, sr) == IF isAborted THEN "aborted" ELSE sr

\* proc.kill(sig) delivers the signal, sets proc.killed and returns true only
\* while the child's handle exists, that is until the child has exited.
\* (Delivery to a live child of this process is taken to succeed, so the
\* "error" event comes from a failed spawn only.)
KillDelivers(p) == p = "alive"

\* timer callback: if (!proc.killed) proc.kill("SIGKILL")
ForceKillAttempted(isKilled) == ~isKilled

TaskInit ==
    /\ SchedIdle /\ ChainIdle /\ CallIdle /\ ForkIdle /\ FnIdle
    /\ taskPc = "start"
    /\ fork \in BOOLEAN
    /\ result = [exitCode |-> RunningExitCode, stopReason |-> "none"]
    /\ resolved = FALSE /\ proc = "none" /\ procCode = <<>>
    /\ ignoresTerm = FALSE /\ signalAborted = FALSE /\ listening = FALSE
    /\ aborted = FALSE /\ killed = FALSE /\ termDelivered = FALSE
    /\ killDelivered = FALSE /\ timer = "none" /\ events = 0
    /\ abortAt = "never" /\ streamStop = "none" /\ everBadStop = FALSE
    /\ abortedAtClose = FALSE
    /\ returned = [exitCode |-> RunningExitCode, stopReason |-> "none"]

\* (variant: a signal raised before attachAbortSignal is not looked at)
AlreadyAbortedUnnoticed(isSignalAborted) == FALSE

\* attachAbortSignal: if (signal.aborted) killProcess()
AlreadyAborted(isSignalAborted) == isSignalAborted

\* killProcess, run on a subprocess in state p
KillProcess(p) ==
    /\ aborted' = TRUE
    /\ killed' = (killed \/ KillDelivers(p))
    /\ termDelivered' = (termDelivered \/ KillDelivers(p))
    /\ timer' = "armed"

\* createForkSession throws (mkdtemp or copyFile failed): the task returns
\* with exit code 1 and nothing is spawned.
CreateForkFails ==
    /\ taskPc = "start"
    /\ fork
    /\ result' = [result EXCEPT !.exitCode = 1]
    /\ returned' = result'
    /\ taskPc' = "returned"
    /\ UNCHANGED <<notTaskVars, procVars, abortVars, fork, resolved, streamStop,
                   everBadStop, abortedAtClose>>

\* spawn("pi", args), proc.stdin.end(), attachAbortSignal(proc, signal) and the
\* registration of the handlers.  ok: the executable could be spawned.
Spawn(ok, ign) ==
    /\ taskPc = "start"
    /\ proc' = IF ok THEN "alive" ELSE "spawnfail"
    /\ ignoresTerm' = (ok /\ ign)
    /\ IF AlreadyAborted(signalAborted)
       THEN KillProcess(proc') /\ UNCHANGED listening
       ELSE /\ listening' = TRUE
            /\ UNCHANGED <<aborted, killed, termDelivered, timer>>
    /\ taskPc' = "spawned"
    /\ UNCHANGED <<notTaskVars, procCode, events, signalAborted, killDelivered,
                   abortAt, fork, result, resolved, streamStop, everBadStop,
                   abortedAtClose, returned>>

\* The call's abort signal is raised (once); a registered listener runs
\* killProcess.
RaiseAbort ==
    /\ taskPc # "off"
    /\ ~signalAborted
    /\ signalAborted' = TRUE
    /\ abortAt' = IF taskPc = "start" THEN "start" ELSE proc
    /\ IF listening
       THEN KillProcess(proc) /\ listening' = FALSE
       ELSE UNCHANGED <<listening, aborted, killed, termDelivered, timer>>
    /\ UNCHANGED <<notTaskVars, procVars, killDelivered, runVars>>

\* The 5000 ms timer set by killProcess fires.
TimerFire ==
    /\ timer = "armed"
    /\ timer' = "fired"
    /\ IF ForceKillAttempted(killed)
       THEN /\ killed' = KillDelivers(proc)
            /\ killDelivered' = KillDelivers(proc)
       ELSE UNCHANGED <<killed, killDelivered>>
    /\ UNCHANGED <<notTaskVars, procVars, signalAborted, listening, aborted,
                   termDelivered, abortAt, runVars>>

\* stdout delivers a line holding an accepted assistant message whose stop
\* reason is sr: handleEventMessage.
StdoutMessage(sr) ==
    /\ proc \in {"alive", "exited"}
    /\ events < MaxEvents
    /\ events' = events + 1
    /\ result' = [result EXCEPT !.stopReason = HandleStopReason(@, sr)]
    /\ streamStop' = IF sr # "none" THEN sr ELSE streamStop
    /\ everBadStop' = (everBadStop \/ sr \in {"error", "aborted"})
    /\ UNCHANGED <<notTaskVars, proc, procCode, ignoresTerm, abortVars, taskPc,
                   fork, resolved, abortedAtClose, returned>>

\* The subprocess ends on its own account with an exit code, or through a
\* signal that did not come from this task (code null).
ProcExit(code) ==
    /\ proc = "alive"
    /\ proc' = "exited"
    /\ procCode' = code
    /\ UNCHANGED <<notTaskVars, ignoresTerm, events, abortVars, runVars>>

\* The subprocess dies of the SIGTERM or SIGKILL this task sent (code null).
ProcKilled ==
    /\ proc = "alive"
    /\ (termDelivered /\ ~ignoresTerm) \/ killDelivered
    /\ proc' = "exited"
    /\ procCode' = <<>>
    /\ UNCHANGED <<notTaskVars, ignoresTerm, events, abortVars, runVars>>

\* (variant: the promise takes the value of the last resolve call)
LastResolve(first, second) == second

\* new Promise(resolve => ...): the promise is settled by the first call of
\* resolve, every later call is ignored.
FirstResolve(first, second) == first

\* What runSingleTask does once the promise is resolved with the exit code of
\* r: line 729 writes that exit code, then the finally block awaits
\* cleanupForkSession, which suspends only when there is a fork session to
\* remove.
AfterResolve(r) ==
    /\ result' = r
    /\ taskPc' = IF fork THEN "cleanup" ELSE "returned"
    /\ returned' = IF fork THEN returned ELSE r

\* The spawn failed.  Node reports it from one nextTick callback that emits
\* "error" and, no stdio stream of a child without a pid being awaited,
\* "close" with the negated errno right after it, before any other callback
\* and before the continuation of the promise.  The error handler sets
\* exitCode = 1 and calls resolve(1); the close handler finds an empty buffer,
\* sets exitCode = code, sets stopReason "aborted" when the task was aborted
\* and calls resolve(code); line 729 then writes the resolved value.
ErrorEvent(code) ==
    /\ proc = "spawnfail"
    /\ proc' = "closed"
    /\ procCode' = code
    /\ AfterResolve([exitCode |-> FirstResolve(1, Coalesce(code, 0)),
                     stopReason |-> CloseStopReason(aborted, result.stopReason)])
    /\ abortedAtClose' = aborted
    /\ resolved' = TRUE
    /\ UNCHANGED <<notTaskVars, ignoresTerm, events, abortVars, fork,
                   streamStop, everBadStop>>

\* proc "close" event of a spawned subprocess, after its exit and the end of
\* its stdio streams.  trailing: the stop reason of an accepted assistant message
\* in the unterminated rest of the buffer, "noline" if the rest is blank.
CloseEvent(code, trailing) ==
    /\ proc = "exited" /\ code = procCode
    /\ (trailing = "noline" \/ events < MaxEvents)
    /\ proc' = "closed"
    /\ procCode' = code
    /\ events' = IF trailing = "noline" THEN events ELSE events + 1
    /\ LET sr == IF trailing = "noline" THEN result.stopReason
                 ELSE HandleStopReason(result.stopReason, trailing)
       IN  AfterResolve([exitCode |-> Coalesce(code, 0),
                         stopReason |-> CloseStopReason(aborted, sr)])
    /\ streamStop' = IF trailing \in {"noline", "none"} THEN streamStop
                     ELSE trailing
    /\ everBadStop' = (everBadStop \/ trailing \in {"error", "aborted"})
    /\ abortedAtClose' = aborted
    /\ resolved' = TRUE
    /\ UNCHANGED <<notTaskVars, ignoresTerm, abortVars, fork>>

\* cleanupForkSession has removed the fork session: runSingleTask returns.
TaskReturn ==
    /\ taskPc = "cleanup"
    /\ taskPc' = "returned"
    /\ returned' = result
    /\ UNCHANGED <<notTaskVars, procVars, abortVars, fork, result, resolved,
                   streamStop, everBadStop, abortedAtClose>>

TaskNext ==
    \/ CreateForkFails
    \/ \E ok \in BOOLEAN, ign \in BOOLEAN : Spawn(ok, ign)
    \/ RaiseAbort
    \/ TimerFire
    \/ \E sr \in StopReasons : StdoutMessage(sr)
    \/ \E code \in {<<0>>, <<1>>, <<>>} : ProcExit(code)
    \/ ProcKilled
    \/ \E code \in SpawnErrorCodes : ErrorEvent(code)
    \/ \E code \in {<<0>>, <<1>>, <<>>},
          trailing \in StopReasons \cup {"noline"} : CloseEvent(code, trailing)
    \/ TaskReturn

TaskSpec == TaskInit /\ [][TaskNext]_vars

\* The event loop runs every ready callback, a subprocess that was sent a
\* signal it does not ignore dies, and the stdio streams of a dead subprocess
\* end.  A subprocess is not assumed ever to exit by itself.
TaskFairness ==
    /\ WF_vars(\E ok \in BOOLEAN, ign \in BOOLEAN : Spawn(ok, ign))
    /\ WF_vars(TimerFire)
    /\ WF_vars(ProcKilled)
    /\ WF_vars(\E code \in SpawnErrorCodes : ErrorEvent(code))
    /\ WF_vars(\E code \in {<<0>>, <<1>>, <<>>} : CloseEvent(code, "noline"))
    /\ WF_vars(TaskReturn)

FairTaskSpec == TaskSpec /\ TaskFairness

(* ------------------------ claims on one task --------------------------- *)

\* the result the stream and the process alone account for: exit code 1 for
\* a failed spawn, else the code of the close event, and the last stop reason
\* an assistant message carried
UnforcedResult ==
    [exitCode |-> IF procCode \in SpawnErrorCodes THEN 1
                  ELSE Coalesce(procCode, 0),
     stopReason |-> streamStop]

\* C5: an abort while the subprocess runs sends it SIGTERM, and a subprocess
\* that is still running when the grace timer fires is sent SIGKILL.
C5_ForceKillAfterGrace ==
    /\ abortAt = "alive" => termDelivered
    /\ (abortAt = "alive" /\ timer = "fired" /\ proc = "alive") => killDelivered

\* C6: once the call's abort signal is raised, a subprocess of the call that
\* is in flight terminates and its task returns, also when the subprocess
\* ignores SIGTERM.
C6_AbortLeadsToReturn ==
    (signalAborted /\ proc = "alive") ~> (proc = "closed" /\ taskPc = "returned")

\* C7: a task whose signal was raised while its subprocess was running ends
\* with stop reason "aborted" and is classified Failed, whatever the exit code.
C7_AbortedWhileRunningFails ==
    (abortAt = "alive" /\ taskPc = "returned") =>
        /\ returned.stopReason = "aborted"
        /\ GetTaskStatus(returned) = "Failed"
        /\ result = returned

\* aborted while running, the subprocess then exited with code 0
C7_Witness ==
    /\ abortAt = "alive"
    /\ taskPc = "returned"
    /\ procCode = <<0>>
    /\ returned.exitCode = 0

\* C8 as stated: a signal raised once the process has exited (before or after
\* the close of its streams) has no effect on the task's exit code, stop
\* reason and classification.
C8_NoOpAfterExit ==
    (abortAt \in {"exited", "closed"} /\ taskPc = "returned") =>
        /\ result = UnforcedResult
        /\ GetTaskStatus(result) = GetTaskStatus(UnforcedResult)

\* C8 as amended: a signal raised once the close event of the subprocess has
\* been handled has no effect on the task's exit code, stop reason and
\* classification, and the listener runs at most once.
C8_NoOpAfterClose ==
    abortAt = "closed" =>
        /\ result = UnforcedResult
        /\ GetTaskStatus(result) = GetTaskStatus(UnforcedResult)
        /\ ~abortedAtClose
        /\ signalAborted /\ ~listening

\* the signal was raised after the close of a subprocess that exited with
\* code 0; the listener ran and the grace timer fired
C8_Witness ==
    /\ abortAt = "closed"
    /\ taskPc = "returned"
    /\ aborted
    /\ timer = "fired"
    /\ procCode = <<0>>
    /\ GetTaskStatus(result) = "Done"

Rank(r) ==
    CASE GetTaskStatus(r) = "Pending" -> 0
      [] GetTaskStatus(r) = "Running" -> 1
      [] OTHER -> 2

C27_SpawnFailureFails ==
    procCode \in SpawnErrorCodes =>
        /\ result.exitCode = 1
        /\ GetTaskStatus(result) = "Failed"
        /\ taskPc = "returned" => returned = result

\* a fork task whose spawn failed with ENOENT has returned after the removal
\* of its fork session
C27_Witness ==
    /\ taskPc = "returned"
    /\ fork
    /\ procCode = <<-2>>
    /\ returned.exitCode = 1

(* ---------------- claims on a close without an exit code ---------------- *)

\* C38: if a subprocess closes without an exit code (it was terminated by a
\* signal) and no abort was raised for its task before, the exit code of the
\* task is recorded as 0 and, unless the stop reason captured from the stream
\* is "error" or "aborted", the task is classified Done.
C38_NullCodeRecordedAsZero ==
    (proc = "closed" /\ procCode = <<>> /\ abortAt \in {"never", "closed"}) =>
        /\ result.exitCode = 0
        /\ result.stopReason = streamStop
        /\ GetTaskStatus(result) =
               IF streamStop \in {"error", "aborted"} THEN "Failed" ELSE "Done"
        /\ taskPc = "returned" => returned = result

\* no abort was raised, the subprocess reported stop reason "stop" and was
\* then terminated by a signal: the task returned as Done with exit code 0
C38_Witness ==
    /\ taskPc = "returned"
    /\ abortAt = "never"
    /\ proc = "closed"
    /\ procCode = <<>>
    /\ returned = [exitCode |-> 0, stopReason |-> "stop"]
    /\ GetTaskStatus(returned) = "Done"

(* --------------- claims on an abort raised before the spawn -------------- *)

\* C37 as stated: a task that is started after the abort signal was raised
\* is not skipped: its subprocess is still spawned and sent SIGTERM at once,
\* and the task finishes with stop reason "aborted".
C37_StartedAfterAbortIsSpawned ==
    (abortAt = "start" /\ taskPc # "start") =>
        /\ proc # "none"
        /\ aborted
        /\ taskPc = "returned" => returned.stopReason = "aborted"

\* C37 amended: a task that is started after the abort signal was raised is
\* not skipped.  Unless it is a forked task whose fork session cannot be
\* created (nothing is spawned then and the task returns exit code 1), its
\* subprocess is still spawned, killProcess runs at the spawn (a subprocess
\* that did start is sent SIGTERM there, before any other event), and the
\* task finishes with stop reason "aborted", hence Failed.
C37_StartedAfterAbortStillRuns ==
    (abortAt = "start" /\ taskPc # "start") =>
        IF proc = "none"
        THEN fork /\ taskPc = "returned" /\ returned.exitCode = 1
        ELSE /\ aborted /\ timer # "none" /\ ~listening
             /\ (proc # "spawnfail" /\ procCode \notin SpawnErrorCodes)
                    => termDelivered
             /\ resolved => result.stopReason = "aborted"
             /\ taskPc = "returned" =>
                    /\ returned.stopReason = "aborted"
                    /\ GetTaskStatus(returned) = "Failed"

\* the signal was raised before the spawn, the subprocess was spawned, got
\* SIGTERM, reported stop reason "stop" and exited with code 0: the task
\* returned as aborted
C37_Witness ==
    /\ abortAt = "start"
    /\ taskPc = "returned"
    /\ termDelivered
    /\ procCode = <<0>>
    /\ streamStop = "stop"
    /\ returned = [exitCode |-> 0, stopReason |-> "aborted"]

(* ======================================================================= *)
(*                      chain mode: sequential steps                       *)
(* ======================================================================= *)

\* Texts are sequences of characters.  "P" stands for the ten characters
\* {previous} (the only text the pattern /\{previous\}/g matches) and "E" for
\* the ellipsis character.
PreviousToken == "P"
Ellipsis == <<"E">>

\* the prompts of the items and the final outputs of the subprocesses explored
PromptTexts == {<<"a">>, <<"P", "a", "P">>}
OutputTexts == {<<>>, <<"a">>, <<"$", "&">>}

\* what resolution does for an item: succeed, fail in resolveTaskConfig (model
\* not of the form provider/modelId) or fail in buildSubprocessPrompt (unknown
\* or unreadable skill)
Resolutions == {"ok", "badModel", "badSkill"}

\* the backtick and the apostrophe, as characters of a text
Backtick == "bt"
Apostrophe == "ap"

\* String.prototype.replace with a string as replacement expands the patterns
\* of the replacement: $$ (a dollar), $& (the match), $ backtick (the text
\* before the match) and $ apostrophe (the text after it); $n is literal, the
\* pattern having no capture group.
RECURSIVE GetSubstitution(_, _, _, _)
GetSubstitution(replacement, matched, before, after) ==
    IF replacement = <<>> THEN <<>>
    ELSE IF Head(replacement) = "$" /\ Len(replacement) >= 2
              /\ replacement[2] \in {"$", "&", Backtick, Apostrophe}
    THEN LET c == replacement[2]
             rest == SubSeq(replacement, 3, Len(replacement))
             expansion == CASE c = "$" -> <<"$">>
                            [] c = "&" -> matched
                            [] c = Backtick -> before
                            [] OTHER -> after
         IN  expansion \o GetSubstitution(rest, matched, before, after)
    ELSE <<Head(replacement)>>
             \o GetSubstitution(Tail(replacement), matched, before, after)

\* prompt.replace(/\{previous\}/g, replacement), from position i of prompt on
RECURSIVE ReplaceFrom(_, _, _)
ReplaceFrom(prompt, i, replacement) ==
    IF i > Len(prompt) THEN <<>>
    ELSE (IF prompt[i] = PreviousToken
          THEN GetSubstitution(replacement, <<PreviousToken>>,
                               SubSeq(prompt, 1, i - 1),
                               SubSeq(prompt, i + 1, Len(prompt)))
          ELSE <<prompt[i]>>)
         \o ReplaceFrom(prompt, i + 1, replacement)

\* buildChainPrompt
BuildChainPrompt(prompt, previous) == ReplaceFrom(prompt, 1, previous)

\* (variant: the pending prompt keeps the token)
BuildPendingPromptRaw(prompt) == prompt

\* buildPendingPrompt
BuildPendingPrompt(prompt) == BuildChainPrompt(prompt, Ellipsis)

\* (variant: the placeholders of the steps carry the default exit code)
ChainPlaceholderRunning(item) ==
    [prompt |-> BuildPendingPrompt(item.prompt),
     exitCode |-> DefaultPlaceholderExitCode, stopReason |-> "none"]

\* createPlaceholderResult({...item, prompt: buildPendingPrompt(item.prompt)},
\*                         index + 1, undefined, undefined, -2)
ChainPlaceholder(item) ==
    [prompt |-> BuildPendingPrompt(item.prompt),
     exitCode |-> PendingExitCode, stopReason |-> "none"]

\* resolveTaskConfig(...).ok
ResolveTaskConfigOk(item) == item.resolves # "badModel"

\* (variant: a skill that cannot be resolved is not noticed)
BuildSubprocessPromptOkAlways(item) == TRUE

\* buildSubprocessPrompt(...).ok
BuildSubprocessPromptOk(item) == item.resolves # "badSkill"

\* (variant: only a positive exit code stops the chain)
ChainStopsOnExitCode(r) == r.exitCode > 0

\* if (isTaskError(result)) return ...
ChainStops(r) == IsTaskError(r)

\* the exit codes runSingleTask stores in the result it returns (line 729):
\* the code of the close event, or 1
StepExitCodes == {0, 1}

ChainSteps == 1 .. Len(chItems)

ChainInit ==
    /\ SchedIdle /\ TaskIdle /\ CallIdle /\ ForkIdle /\ FnIdle
    /\ chPc = "loop"
    /\ chItems \in UNION {[1 .. n -> [prompt : PromptTexts, resolves : Resolutions]] :
                            n \in 1 .. MaxSteps}
    /\ chIndex = 1
    /\ chResults = [k \in ChainSteps |-> ChainPlaceholder(chItems[k])]
    /\ previousOutput = <<>>
    /\ chOutputs = <<>>
    /\ chSpawned = {}
    /\ chUpdate = <<>>
    /\ chReturn = [kind |-> "none", results |-> <<>>, isError |-> FALSE]

\* Loop body up to a failed resolution: the call returns the error text with
\* details: makeDetails([...results]).
StepResolveFails ==
    /\ chPc = "loop"
    /\ chIndex \in ChainSteps
    /\ LET item == chItems[chIndex]
       IN  /\ ~(ResolveTaskConfigOk(item) /\ BuildSubprocessPromptOk(item))
           /\ chReturn' = [kind |-> IF ~ResolveTaskConfigOk(item)
                                    THEN "configError" ELSE "skillError",
                           results |-> chResults, isError |-> FALSE]
    /\ chPc' = "returned"
    /\ UNCHANGED <<notChainVars, chItems, chIndex, chResults, previousOutput,
                   chOutputs, chSpawned, chUpdate>>

\* Loop body up to the await: the step's prompt is built, its configuration
\* and skill resolve, the running placeholder replaces the pending one, an
\* update is emitted and runSingleTask spawns the subprocess.
StepStart ==
    /\ chPc = "loop"
    /\ chIndex \in ChainSteps
    /\ LET item == chItems[chIndex]
           prompt == BuildChainPrompt(item.prompt, previousOutput)
       IN  /\ ResolveTaskConfigOk(item) /\ BuildSubprocessPromptOk(item)
           /\ chResults' = [chResults EXCEPT ![chIndex] =
                              [prompt |-> prompt,
                               exitCode |-> DefaultPlaceholderExitCode,
                               stopReason |-> "none"]]
    /\ chUpdate' = chResults'
    /\ chSpawned' = chSpawned \cup {chIndex}
    /\ chPc' = "running"
    /\ UNCHANGED <<notChainVars, chItems, chIndex, previousOutput, chOutputs,
                   chReturn>>

\* chainUpdate(partial): an accepted stdout event of the running step, whose
\* assistant message carries stop reason sr.
StepUpdate(sr) ==
    /\ chPc = "running"
    /\ chResults' = [chResults EXCEPT ![chIndex].exitCode = RunningExitCode,
                                      ![chIndex].stopReason = HandleStopReason(@, sr)]
    /\ chUpdate' = chResults'
    /\ UNCHANGED <<notChainVars, chPc, chItems, chIndex, previousOutput,
                   chOutputs, chSpawned, chReturn>>

\* runSingleTask returns with exit code `code`, a last stop reason sr and the
\* final text output `out`: the result is stored, an update is emitted, and
\* the chain stops on a task error or goes on with previousOutput = out.
StepFinish(code, sr, out) ==
    /\ chPc = "running"
    /\ LET r == [prompt |-> chResults[chIndex].prompt,
                 exitCode |-> code,
                 stopReason |-> HandleStopReason(chResults[chIndex].stopReason, sr)]
       IN  /\ chResults' = [chResults EXCEPT ![chIndex] = r]
           /\ chUpdate' = chResults'
           /\ chOutputs' = Append(chOutputs, out)
           /\ IF ChainStops(r)
              THEN /\ chReturn' = [kind |-> "stopped", results |-> chResults',
                                   isError |-> TRUE]
                   /\ chPc' = "returned"
                   /\ UNCHANGED <<chIndex, previousOutput>>
              ELSE /\ previousOutput' = out
                   /\ chIndex' = chIndex + 1
                   /\ chPc' = "loop"
                   /\ UNCHANGED chReturn
    /\ UNCHANGED <<notChainVars, chItems, chSpawned>>

\* The loop is over: the call returns the output of the last step.
ChainReturn ==
    /\ chPc = "loop"
    /\ chIndex > Len(chItems)
    /\ chReturn' = [kind |-> "ok", results |-> chResults, isError |-> FALSE]
    /\ chPc' = "returned"
    /\ UNCHANGED <<notChainVars, chItems, chIndex, chResults, previousOutput,
                   chOutputs, chSpawned, chUpdate>>

ChainNext ==
    \/ StepResolveFails
    \/ StepStart
    \/ \E sr \in StopReasons : StepUpdate(sr)
    \/ \E code \in StepExitCodes, sr \in StopReasons, out \in OutputTexts :
          StepFinish(code, sr, out)
    \/ ChainReturn

ChainSpec == ChainInit /\ [][ChainNext]_vars

(* ------------------------- claims on chain mode ------------------------ *)

\* the prompt with every {previous} token replaced by text, character for
\* character
RECURSIVE SubstituteVerbatim(_, _)
SubstituteVerbatim(prompt, text) ==
    IF prompt = <<>> THEN <<>>
    ELSE (IF Head(prompt) = PreviousToken THEN text ELSE <<Head(prompt)>>)
         \o SubstituteVerbatim(Tail(prompt), text)

\* steps that have been started (their pending placeholder was replaced)
ChainStarted == {k \in ChainSteps : chResults[k].exitCode # PendingExitCode}

\* C11: the prompt of every started step k is the item's prompt with every
\* {previous} token replaced by the final output of step k-1 exactly as
\* produced (the empty text for step 1), whatever that output is.
C11_PreviousSubstitutedVerbatim ==
    \A k \in ChainStarted :
        chResults[k].prompt =
            SubstituteVerbatim(chItems[k].prompt,
                               IF k = 1 THEN <<>> ELSE chOutputs[k - 1])

\* C12: no subprocess is spawned for a step that comes after a step which
\* finished Failed.
C12_FailedStepStopsChain ==
    \A k \in chSpawned : \A j \in 1 .. (k - 1) :
        GetTaskStatus(chResults[j]) = "Done"

\* the chain stopped at its second step, which failed by its stop reason
\* alone, with a step left
C12_Witness ==
    /\ chPc = "returned"
    /\ chReturn.kind = "stopped"
    /\ chIndex = 2
    /\ Len(chItems) = 3
    /\ chResults[2].exitCode = 0
    /\ chSpawned = {1, 2}

\* C13 as stated: when the chain stops at a Failed step k, the returned result
\* set has exactly the entries of steps 1..k.
C13_ReturnsExactlyStepsRun ==
    chReturn.kind = "stopped" => Len(chReturn.results) = chIndex

\* C13 as amended: when the chain stops at a Failed step k, the returned
\* result set has one entry per step of the chain: steps 1..k-1 Done, step k
\* Failed, and for each of the steps k+1..N a Pending placeholder for which
\* nothing was spawned.
C13_ReturnsRunStepsThenPending ==
    chReturn.kind = "stopped" =>
        /\ Len(chReturn.results) = Len(chItems)
        /\ chReturn.isError
        /\ \A j \in ChainSteps :
              /\ j < chIndex => GetTaskStatus(chReturn.results[j]) = "Done"
              /\ j = chIndex => GetTaskStatus(chReturn.results[j]) = "Failed"
              /\ j > chIndex =>
                    /\ GetTaskStatus(chReturn.results[j]) = "Pending"
                    /\ j \notin chSpawned

\* a chain of three steps stopped at its second step
C13_Witness ==
    /\ chReturn.kind = "stopped"
    /\ chIndex = 2
    /\ Len(chItems) = 3
    /\ GetTaskStatus(chReturn.results[3]) = "Pending"

\* C14: no subprocess is spawned for a step whose configuration or skill does
\* not resolve; the call then returns that error with the completed results of
\* the steps before it, and nothing was spawned for that step or a later one.
C14_ResolutionFailureStopsChain ==
    /\ \A k \in chSpawned : chItems[k].resolves = "ok"
    /\ chReturn.kind \in {"configError", "skillError"} =>
          /\ chItems[chIndex].resolves =
                (IF chReturn.kind = "configError" THEN "badModel" ELSE "badSkill")
          /\ chSpawned = 1 .. (chIndex - 1)
          /\ \A j \in 1 .. (chIndex - 1) :
                /\ chReturn.results[j] = chResults[j]
                /\ GetTaskStatus(chReturn.results[j]) = "Done"

\* the skill of the third step of a chain could not be resolved, after two
\* steps that ran
C14_Witness ==
    /\ chReturn.kind = "skillError"
    /\ chIndex = 3
    /\ chSpawned = {1, 2}

\* C15: every progress update of a chain shows at most one step Running, every
\* step before it Done, and every step after it as a Pending placeholder whose
\* prompt has the ellipsis in the place of each {previous} token.
C15_UpdatesShowOneRunningStep ==
    chUpdate # <<>> =>
        LET running == {k \in ChainSteps :
                           GetTaskStatus(chUpdate[k]) = "Running"}
        IN  /\ Cardinality(running) <= 1
            /\ \A k \in running, j \in ChainSteps :
                  /\ j < k => GetTaskStatus(chUpdate[j]) = "Done"
                  /\ j > k =>
                        /\ GetTaskStatus(chUpdate[j]) = "Pending"
                        /\ chUpdate[j].prompt =
                              SubstituteVerbatim(chItems[j].prompt, Ellipsis)

\* an update shows the second step of three Running, the third step's prompt
\* having {previous} tokens
C15_Witness ==
    /\ chUpdate # <<>>
    /\ Len(chItems) = 3
    /\ GetTaskStatus(chUpdate[2]) = "Running"
    /\ chItems[3].prompt = <<"P", "a", "P">>
    /\ chUpdate[3].prompt = <<"E", "a", "E">>

(* ======================================================================= *)
(*        execute(): normalization, fork prerequisite, preparation         *)
(* ======================================================================= *)

\* values of params.type ("other": anything that is not one of the modes)
RequestTypes == {"single", "parallel", "chain", "other"}

\* values of the fork field of a well-formed task entry
RawForks == {"absent", "true", "false"}

\* the entries of params.tasks: an entry that parseTaskItems rejects (not an
\* object, neither prompt nor skill, a field of the wrong type, an unknown
\* thinking level), or a well-formed one
RawEntries ==
    {[valid |-> FALSE, fork |-> "absent", resolves |-> "ok"]}
    \cup [valid : {TRUE}, fork : RawForks, resolves : Resolutions]

\* (variant: an omitted fork field means no fork)
NormalizeForkInputOptIn(value) == value = "true"

\* normalizeForkInput: if (value === undefined) return { ok: true, value: true }
NormalizeForkInput(value) == IF value = "absent" THEN TRUE ELSE value = "true"

\* parseTaskItems
ParseTaskItems(raw) ==
    IF \E k \in DOMAIN raw : ~raw[k].valid
    THEN [ok |-> FALSE, items |-> <<>>]
    ELSE [ok |-> TRUE,
          items |-> [k \in DOMAIN raw |->
                       [fork |-> NormalizeForkInput(raw[k].fork),
                        resolves |-> raw[k].resolves]]]

\* (variant: chain and parallel requests have no upper bound)
TaskCountOkUnbounded(mode, n, max) ==
    IF mode = "single" THEN n = 1
    ELSE mode \in {"parallel", "chain"} /\ n # 0

\* normalizeTaskParams: the tests of rawTasks.length in the branch of the mode
TaskCountOk(mode, n, max) ==
    IF mode = "single" THEN ~(n # 1)
    ELSE mode \in {"parallel", "chain"} /\ ~(n = 0) /\ ~(n > max)

\* normalizeTaskParams
NormalizeTaskParams(mode, raw, max) ==
    IF ~TaskCountOk(mode, Len(raw), max) THEN [ok |-> FALSE, items |-> <<>>]
    ELSE ParseTaskItems(raw)

\* (variant: fork is required only if every item asks for it)
RequiresForkAll(items) == \A k \in DOMAIN items : items[k].fork

\* requiresFork = normalized.value.items.some((item) => item.fork)
RequiresFork(items) == \E k \in DOMAIN items : items[k].fork

\* (variant: only the first item is prepared)
PrepareFirstItemOnly(items) ==
    IF items[1].resolves # "ok"
    THEN [ok |-> FALSE, error |-> items[1].resolves]
    ELSE [ok |-> TRUE, error |-> "none"]

\* prepareTaskExecutions: the error of the first item that does not resolve
PrepareTaskExecutions(items) ==
    LET failing == {k \in DOMAIN items : items[k].resolves # "ok"}
    IN  IF failing # {}
        THEN [ok |-> FALSE,
              error |-> items[CHOOSE k \in failing : \A j \in failing : k <= j].resolves]
        ELSE [ok |-> TRUE, error |-> "none"]

CallItems == DOMAIN cItems

CallInit ==
    /\ SchedIdle /\ TaskIdle /\ ChainIdle /\ ForkIdle /\ FnIdle
    /\ cPc = "normalize"
    /\ reqType \in RequestTypes
    /\ rawTasks \in UNION {[1 .. n -> RawEntries] : n \in 0 .. (MaxParallel + 1)}
    /\ maxParallelTasks \in 1 .. MaxParallel
    /\ hasSessionFile \in BOOLEAN
    /\ cItems = <<>>
    /\ cIndex = 0
    /\ cRan = {}
    /\ cSpawned = {}
    /\ cResponse = [kind |-> "none", error |-> "none"]

\* execute(): normalizeTaskParams; a rejected request returns the error.
Normalize ==
    /\ cPc = "normalize"
    /\ LET normalized == NormalizeTaskParams(reqType, rawTasks, maxParallelTasks)
       IN  IF ~normalized.ok
           THEN /\ cResponse' = [kind |-> "rejected", error |-> "none"]
                /\ cPc' = "returned"
                /\ UNCHANGED cItems
           ELSE /\ cItems' = normalized.items
                /\ cPc' = "forkcheck"
                /\ UNCHANGED cResponse
    /\ UNCHANGED <<notCallVars, reqType, rawTasks, maxParallelTasks,
                   hasSessionFile, cIndex, cRan, cSpawned>>

\* execute(): if (requiresFork && !sessionFile) return the no-session-file
\* error.
ForkPrerequisite ==
    /\ cPc = "forkcheck"
    /\ IF RequiresFork(cItems) /\ ~hasSessionFile
       THEN /\ cResponse' = [kind |-> "noSessionFile", error |-> "none"]
            /\ cPc' = "returned"
       ELSE /\ cPc' = "dispatch"
            /\ UNCHANGED cResponse
    /\ UNCHANGED <<notCallVars, reqType, rawTasks, maxParallelTasks,
                   hasSessionFile, cItems, cIndex, cRan, cSpawned>>

\* single and parallel branch: prepareTaskExecutions; a failure returns its
\* error.
Prepare ==
    /\ cPc = "dispatch"
    /\ reqType \in {"single", "parallel"}
    /\ LET prepared == PrepareTaskExecutions(cItems)
       IN  IF ~prepared.ok
           THEN /\ cResponse' = [kind |-> "resolveError", error |-> prepared.error]
                /\ cPc' = "returned"
           ELSE /\ cPc' = "run"
                /\ UNCHANGED cResponse
    /\ UNCHANGED <<notCallVars, reqType, rawTasks, maxParallelTasks,
                   hasSessionFile, cItems, cIndex, cRan, cSpawned>>

\* chain branch: the loop is entered.
EnterChain ==
    /\ cPc = "dispatch"
    /\ reqType = "chain"
    /\ cIndex' = 1
    /\ cPc' = "chain"
    /\ UNCHANGED <<notCallVars, reqType, rawTasks, maxParallelTasks,
                   hasSessionFile, cItems, cRan, cSpawned, cResponse>>

\* runSingleTask for item i spawns a subprocess unless the item forks and the
\* session file is missing or the fork session cannot be created.
CanSpawn(i, forkOk) == ~cItems[i].fork \/ (hasSessionFile /\ forkOk)

\* single and parallel branch: runSingleTask runs for an item (in the order
\* the scheduler picks, which is Spec's matter).
RunItem(i, forkOk) ==
    /\ cPc = "run"
    /\ i \in CallItems \ cRan
    /\ cRan' = cRan \cup {i}
    /\ cSpawned' = IF CanSpawn(i, forkOk) THEN cSpawned \cup {i} ELSE cSpawned
    /\ UNCHANGED <<notCallVars, cPc, reqType, rawTasks, maxParallelTasks,
                   hasSessionFile, cItems, cIndex, cResponse>>

\* chain branch: the resolution of the current step fails.
ChainStepResolveFails ==
    /\ cPc = "chain"
    /\ cIndex \in CallItems
    /\ ~(ResolveTaskConfigOk(cItems[cIndex]) /\ BuildSubprocessPromptOk(cItems[cIndex]))
    /\ cResponse' = [kind |-> "resolveError", error |-> cItems[cIndex].resolves]
    /\ cPc' = "returned"
    /\ UNCHANGED <<notCallVars, reqType, rawTasks, maxParallelTasks,
                   hasSessionFile, cItems, cIndex, cRan, cSpawned>>

\* chain branch: the current step resolves and runs; the chain stops if its
\* result is a task error (as it is when nothing could be spawned).
ChainStepRuns(forkOk, failed) ==
    /\ cPc = "chain"
    /\ cIndex \in CallItems
    /\ ResolveTaskConfigOk(cItems[cIndex]) /\ BuildSubprocessPromptOk(cItems[cIndex])
    /\ cRan' = cRan \cup {cIndex}
    /\ cSpawned' = IF CanSpawn(cIndex, forkOk) THEN cSpawned \cup {cIndex}
                   ELSE cSpawned
    /\ IF failed \/ ~CanSpawn(cIndex, forkOk)
       THEN /\ cResponse' = [kind |-> "stopped", error |-> "none"]
            /\ cPc' = "returned"
            /\ UNCHANGED cIndex
       ELSE /\ cIndex' = cIndex + 1
            /\ UNCHANGED <<cPc, cResponse>>
    /\ UNCHANGED <<notCallVars, reqType, rawTasks, maxParallelTasks,
                   hasSessionFile, cItems>>

\* every task has run (single, parallel), or the loop is over (chain): the
\* call returns its final response.
CallReturn ==
    /\ \/ cPc = "run" /\ cRan = CallItems
       \/ cPc = "chain" /\ cIndex > Len(cItems)
    /\ cResponse' = [kind |-> "done", error |-> "none"]
    /\ cPc' = "returned"
    /\ UNCHANGED <<notCallVars, reqType, rawTasks, maxParallelTasks,
                   hasSessionFile, cItems, cIndex, cRan, cSpawned>>

CallNext ==
    \/ Normalize
    \/ ForkPrerequisite
    \/ Prepare
    \/ EnterChain
    \/ \E i \in 1 .. (MaxParallel + 1), forkOk \in BOOLEAN : RunItem(i, forkOk)
    \/ ChainStepResolveFails
    \/ \E forkOk \in BOOLEAN, failed \in BOOLEAN : ChainStepRuns(forkOk, failed)
    \/ CallReturn

CallSpec == CallInit /\ [][CallNext]_vars

(* ----------------------- claims on one call --------------------------- *)

\* normalizeTaskParams accepted the request
Accepted == cPc # "normalize" /\ cResponse.kind # "rejected"

\* the fork prerequisite was checked and passed
PrerequisitePassed ==
    Accepted /\ cPc # "forkcheck" /\ cResponse.kind # "noSessionFile"

\* items whose skill or configuration does not resolve
Unresolvable == {k \in CallItems : cItems[k].resolves # "ok"}

\* C16: in single and parallel mode, while some item's skill or configuration
\* does not resolve nothing is spawned for any item, and the call returns the
\* error of the first such item.
C16_PrepareFailsBeforeAnySpawn ==
    (reqType \in {"single", "parallel"} /\ Unresolvable # {}) =>
        /\ cSpawned = {} /\ cRan = {}
        /\ (cPc = "returned" /\ PrerequisitePassed) =>
              /\ cResponse.kind = "resolveError"
              /\ \E k \in Unresolvable :
                    /\ cResponse.error = cItems[k].resolves
                    /\ \A j \in Unresolvable : k <= j

\* a parallel call returned the error of its second item, the first one
\* having resolved
C16_Witness ==
    /\ reqType = "parallel"
    /\ cPc = "returned"
    /\ cResponse.kind = "resolveError"
    /\ Len(cItems) >= 2
    /\ cItems[1].resolves = "ok"
    /\ cItems[2].resolves = "badSkill"

\* C18: an accepted request with an item that forks and no session file fails
\* with the no-session-file error, and nothing is spawned for any of its items.
C18_ForkNeedsSessionFile ==
    (Accepted /\ ~hasSessionFile /\ \E k \in CallItems : cItems[k].fork) =>
        /\ cSpawned = {} /\ cRan = {}
        /\ cPc \in {"forkcheck", "returned"}
        /\ cPc = "returned" => cResponse.kind = "noSessionFile"

\* the call failed for one item that forks by default, next to an item with
\* fork false
C18_Witness ==
    /\ cPc = "returned"
    /\ cResponse.kind = "noSessionFile"
    /\ \E k \in CallItems : ~cItems[k].fork
    /\ \E k \in CallItems : rawTasks[k].fork = "absent"

\* C20: a request is accepted only if it has exactly one task (single) or
\* between 1 and maxParallelTasks tasks (chain, parallel); the items of an
\* accepted request are as many as its tasks; nothing is spawned for a
\* rejected request.
C20_AcceptsOnlyCountsInRange ==
    LET n == Len(rawTasks)
    IN  /\ Accepted =>
              /\ \/ reqType = "single" /\ n = 1
                 \/ reqType \in {"chain", "parallel"} /\ 1 <= n /\ n <= maxParallelTasks
              /\ Len(cItems) = n
        /\ cResponse.kind = "rejected" =>
              cPc = "returned" /\ cSpawned = {} /\ cRan = {}
        /\ cSpawned # {} => Accepted

\* an accepted chain of maxParallelTasks (at least 2) tasks, all spawned
C20_Witness ==
    /\ reqType = "chain"
    /\ Len(rawTasks) = maxParallelTasks
    /\ maxParallelTasks >= 2
    /\ cPc = "returned"
    /\ cSpawned = 1 .. maxParallelTasks

(* ======================================================================= *)
(*              fork sessions of the tasks of one call                     *)
(* ======================================================================= *)

ForkTasks == DOMAIN fkPc

\* the ways the run of a spawned subprocess ends for runSingleTask
RunEndings == {"success", "failure", "spawnError", "cancelled"}

\* the directory mkdtemp made for task t (0: none)
TmpDir(t) ==
    IF \E d \in DOMAIN fkDirs : fkDirs[d].owner = t
    THEN CHOOSE d \in DOMAIN fkDirs : fkDirs[d].owner = t
    ELSE 0

\* fs.promises.rm(dir, { recursive: true, force: true }) on directory d, which
\* succeeds or throws
Rm(dirs, d, rmOk) ==
    [dirs EXCEPT ![d].rmCalls = @ + 1,
                 ![d].state = IF rmOk THEN "removed" ELSE @,
                 ![d].rmFailed = (@ \/ ~rmOk)]

\* (variant: cleanupForkSession never removes anything)
CleanupNeverNeeded(session) == FALSE

\* cleanupForkSession: if (!session) return
CleanupNeeded(session) == session # 0

\* the argument vector buildSubprocessArgs builds (task-config.ts)
BuildSubprocessArgv(model, thinkingLevel, tools) ==
    <<"--mode", "json", "-p", "--no-session", "--no-extensions">>
    \o (IF model = <<>> THEN <<>>
        ELSE <<"--provider", model[1], "--model", model[2]>>)
    \o <<"--thinking", thinkingLevel>>
    \o (IF tools = <<>> THEN <<"--no-tools">>
        ELSE <<"--tools", tools[1]>>)

\* the subprocessArgs of a task: without a model and without tools, with a
\* model and the tools read,bash, and with the model "--no-session/m"
BaseArgs ==
    {BuildSubprocessArgv(<<>>, "off", <<>>),
     BuildSubprocessArgv(<<"p", "m">>, "high", <<"read,bash">>),
     BuildSubprocessArgv(<<"--no-session", "m">>, "high", <<>>)}

\* session.dir and session.seedPath of the session in directory d
SessionDir(d) == <<"/tmp/pi-task-tool-1", "/tmp/pi-task-tool-2",
                   "/tmp/pi-task-tool-3", "/tmp/pi-task-tool-4">>[d]

SeedPath(d) == <<"/tmp/pi-task-tool-1/seed.jsonl",
                 "/tmp/pi-task-tool-2/seed.jsonl",
                 "/tmp/pi-task-tool-3/seed.jsonl",
                 "/tmp/pi-task-tool-4/seed.jsonl">>[d]

NotNoSession(arg) == arg # "--no-session"

\* (variant: the arguments of the session are added, nothing is taken out)
ApplyForkSessionArgsUnfiltered(baseArgs, session) ==
    IF session = 0 THEN baseArgs
    ELSE baseArgs \o <<"--session", SeedPath(session),
                       "--session-dir", SessionDir(session)>>

\* applyForkSessionArgs
ApplyForkSessionArgs(baseArgs, session) ==
    IF session = 0 THEN baseArgs
    ELSE SelectSeq(baseArgs, NotNoSession)
         \o <<"--session", SeedPath(session),
              "--session-dir", SessionDir(session)>>

\* runSingleTask: args = [...applyForkSessionArgs(subprocessArgs, forkSession),
\* subprocessPrompt]
SpawnArgs(session) ==
    Append(ApplyForkSessionArgs(fkInput.subprocessArgs, session),
           fkInput.subprocessPrompt)

ForkInit ==
    /\ SchedIdle /\ TaskIdle /\ ChainIdle /\ CallIdle /\ FnIdle
    /\ \E n \in 1 .. MaxForkTasks :
          /\ fkPc = [t \in 1 .. n |-> "start"]
          /\ fkFork \in [1 .. n -> BOOLEAN]
          /\ fkSession = [t \in 1 .. n |-> 0]
          /\ fkHow = [t \in 1 .. n |-> "none"]
          /\ fkArgs = [t \in 1 .. n |-> <<>>]
    /\ fkInput \in [subprocessArgs : BaseArgs, subprocessPrompt : {"prompt"}]
    /\ fkDirs = <<>>
    /\ fkCallPc = "running"

\* runSingleTask with fork false: the subprocess is spawned without a session.
SpawnUnforked(t) ==
    /\ fkPc[t] = "start"
    /\ ~fkFork[t]
    /\ fkPc' = [fkPc EXCEPT ![t] = "running"]
    /\ fkArgs' = [fkArgs EXCEPT ![t] = SpawnArgs(fkSession[t])]
    /\ UNCHANGED <<notForkVars, fkInput, fkFork, fkSession, fkDirs, fkHow, fkCallPc>>

\* createForkSession: mkdtemp makes a new directory, or throws (the task then
\* returns with exit code 1).
Mkdtemp(t, ok) ==
    /\ fkPc[t] = "start"
    /\ fkFork[t]
    /\ IF ok
       THEN /\ fkDirs' = Append(fkDirs, [state |-> "exists", rmCalls |-> 0,
                                         rmFailed |-> FALSE, owner |-> t,
                                         givenTo |-> {}])
            /\ fkPc' = [fkPc EXCEPT ![t] = "copy"]
            /\ UNCHANGED fkHow
       ELSE /\ fkHow' = [fkHow EXCEPT ![t] = "mkdtempFailed"]
            /\ fkPc' = [fkPc EXCEPT ![t] = "returned"]
            /\ UNCHANGED fkDirs
    /\ UNCHANGED <<notForkVars, fkInput, fkArgs, fkFork, fkSession, fkCallPc>>

\* createForkSession: copyFile succeeds, the session is returned and the
\* subprocess is spawned with --session-dir (applyForkSessionArgs); or copyFile
\* throws, the directory is removed (best effort) and the task returns with
\* exit code 1.
CopyFile(t, ok, rmOk) ==
    /\ fkPc[t] = "copy"
    /\ IF ok
       THEN /\ fkSession' = [fkSession EXCEPT ![t] = TmpDir(t)]
            /\ fkDirs' = [fkDirs EXCEPT ![TmpDir(t)].givenTo = @ \cup {t}]
            /\ fkPc' = [fkPc EXCEPT ![t] = "running"]
            /\ fkArgs' = [fkArgs EXCEPT ![t] = SpawnArgs(TmpDir(t))]
            /\ UNCHANGED fkHow
       ELSE /\ fkDirs' = Rm(fkDirs, TmpDir(t), rmOk)
            /\ fkHow' = [fkHow EXCEPT ![t] = "copyFailed"]
            /\ fkPc' = [fkPc EXCEPT ![t] = "returned"]
            /\ UNCHANGED <<fkSession, fkArgs>>
    /\ UNCHANGED <<notForkVars, fkInput, fkFork, fkCallPc>>

\* The promise around the subprocess resolves (close or error event): the try
\* block returns and the finally block calls cleanupForkSession, which returns
\* at once without a session.
SubprocessEnds(t, how) ==
    /\ fkPc[t] = "running"
    /\ fkHow' = [fkHow EXCEPT ![t] = how]
    /\ fkPc' = [fkPc EXCEPT ![t] = IF CleanupNeeded(fkSession[t])
                                   THEN "cleanup" ELSE "returned"]
    /\ UNCHANGED <<notForkVars, fkInput, fkArgs, fkFork, fkSession, fkDirs, fkCallPc>>

\* cleanupForkSession: the awaited rm of session.dir ends, an error being
\* swallowed; runSingleTask returns.
CleanupForkSession(t, rmOk) ==
    /\ fkPc[t] = "cleanup"
    /\ fkDirs' = Rm(fkDirs, fkSession[t], rmOk)
    /\ fkPc' = [fkPc EXCEPT ![t] = "returned"]
    /\ UNCHANGED <<notForkVars, fkInput, fkArgs, fkFork, fkSession, fkHow, fkCallPc>>

\* every task of the call has returned: execute() returns.
ForkCallReturn ==
    /\ fkCallPc = "running"
    /\ \A t \in ForkTasks : fkPc[t] = "returned"
    /\ fkCallPc' = "returned"
    /\ UNCHANGED <<notForkVars, fkInput, fkArgs, fkPc, fkFork, fkSession, fkDirs, fkHow>>

ForkNext ==
    \/ \E t \in ForkTasks : SpawnUnforked(t)
    \/ \E t \in ForkTasks, ok \in BOOLEAN : Mkdtemp(t, ok)
    \/ \E t \in ForkTasks, ok \in BOOLEAN, rmOk \in BOOLEAN : CopyFile(t, ok, rmOk)
    \/ \E t \in ForkTasks, how \in RunEndings : SubprocessEnds(t, how)
    \/ \E t \in ForkTasks, rmOk \in BOOLEAN : CleanupForkSession(t, rmOk)
    \/ ForkCallReturn

ForkSpec == ForkInit /\ [][ForkNext]_vars

(* ----------------------- claims on fork sessions ----------------------- *)

\* removal of every created directory is attempted at most once, and exactly
\* once by the time its task has returned; a directory is handed to the
\* subprocess of its own task only, and no two tasks hold the same session
RemovalAttemptedOncePerSession ==
    /\ \A d \in DOMAIN fkDirs :
          /\ fkDirs[d].rmCalls <= 1
          /\ fkPc[fkDirs[d].owner] = "returned" => fkDirs[d].rmCalls = 1
          /\ fkDirs[d].givenTo \subseteq {fkDirs[d].owner}
    /\ \A t, u \in ForkTasks :
          (t # u /\ fkSession[t] # 0) => fkSession[t] # fkSession[u]

\* C19 as stated: every created fork session is destroyed exactly once on
\* every exit path of its task and is never shared; no directory created by
\* the call remains when the call returns.
C19_SessionsDestroyedExactlyOnce ==
    /\ RemovalAttemptedOncePerSession
    /\ \A d \in DOMAIN fkDirs :
          fkPc[fkDirs[d].owner] = "returned" => fkDirs[d].state = "removed"
    /\ fkCallPc = "returned" =>
          \A d \in DOMAIN fkDirs : fkDirs[d].state = "removed"

\* C19 as amended: removal of every created fork session is attempted exactly
\* once on every exit path of its task, and a session is never shared; when
\* the call returns, a directory created by the call remains only if that one
\* removal failed.
C19_SessionsRemovedBestEffort ==
    /\ RemovalAttemptedOncePerSession
    /\ \A d \in DOMAIN fkDirs :
          fkPc[fkDirs[d].owner] = "returned" =>
              (fkDirs[d].state = "exists" <=> fkDirs[d].rmFailed)
    /\ fkCallPc = "returned" =>
          \A d \in DOMAIN fkDirs :
              fkDirs[d].rmCalls = 1
              /\ (fkDirs[d].state = "exists" => fkDirs[d].rmFailed)

\* the call returned after two forked tasks, one cancelled and one whose seed
\* copy failed, and both directories are gone
C19_Witness ==
    /\ fkCallPc = "returned"
    /\ Len(fkDirs) = 2
    /\ \E t \in ForkTasks : fkHow[t] = "cancelled"
    /\ \E t \in ForkTasks : fkHow[t] = "copyFailed"
    /\ \A d \in DOMAIN fkDirs : fkDirs[d].state = "removed"

(* ------------------ claims on the argument vector ----------------------- *)

\* the flags of pi that take a value
ValueFlags == {"--mode", "--provider", "--model", "--thinking", "--tools",
               "--session", "--session-dir"}

\* the positions of args, from i on, that hold a flag or a positional
\* argument and not the value of the flag before
RECURSIVE ArgPositionsFrom(_, _)
ArgPositionsFrom(args, i) ==
    IF i > Len(args) THEN {}
    ELSE {i} \cup ArgPositionsFrom(args, IF args[i] \in ValueFlags
                                         THEN i + 2 ELSE i + 1)

\* the positions of the flag in the arguments before the prompt
FlagAt(args, flag) ==
    {i \in ArgPositionsFrom(SubSeq(args, 1, Len(args) - 1), 1) :
        args[i] = flag}

\* C34: the argument vector of every spawned subprocess has the prepared
\* prompt as its last element and contains exactly one session choice: the
\* no-persistence flag, and neither session flag, when the task is not
\* forked; when it is forked, no no-persistence flag, and the seed-file and
\* session-directory flags, once each, with the paths of the directory made
\* for this task, which no other task was given.
C34_ArgsHoldOneSessionChoice ==
    \A t \in ForkTasks :
        fkArgs[t] # <<>> =>
            LET args == fkArgs[t]
                seeds == FlagAt(args, "--session")
                dirs == FlagAt(args, "--session-dir")
            IN  /\ args[Len(args)] = fkInput.subprocessPrompt
                /\ ~fkFork[t] =>
                       /\ Cardinality(FlagAt(args, "--no-session")) = 1
                       /\ seeds = {} /\ dirs = {}
                /\ fkFork[t] =>
                       /\ FlagAt(args, "--no-session") = {}
                       /\ Cardinality(seeds) = 1 /\ Cardinality(dirs) = 1
                       /\ TmpDir(t) # 0
                       /\ \A i \in seeds : args[i + 1] = SeedPath(TmpDir(t))
                       /\ \A i \in dirs : args[i + 1] = SessionDir(TmpDir(t))
                       /\ \A u \in ForkTasks \ {t} :
                              \A j \in DOMAIN fkArgs[u] :
                                  fkArgs[u][j] \notin {SeedPath(TmpDir(t)),
                                                       SessionDir(TmpDir(t))}

\* a forked and an unforked task of one call were both spawned with a model
\* given: the first with the session of its directory, the second with
\* --no-session
C34_Witness ==
    /\ \E t \in ForkTasks :
          /\ fkFork[t] /\ fkArgs[t] # <<>>
          /\ fkArgs[t][5] = "--provider"
          /\ fkArgs[t][Len(fkArgs[t]) - 2] = "--session-dir"
    /\ \E t \in ForkTasks :
          /\ ~fkFork[t] /\ fkArgs[t] # <<>>
          /\ fkArgs[t][4] = "--no-session"

(* ======================================================================= *)
(*              task-params.ts: the entries of params.tasks                *)
(* ======================================================================= *)

\* A value received in a request: undefined, a string (its text a sequence
\* of characters, " " the white space; a word such as "high" is written as
\* one character), or a value of another type.
Undefined == [type |-> "undefined", text |-> <<>>]
NotAString == [type |-> "other", text |-> <<>>]
Str(t) == [type |-> "string", text |-> t]

RECURSIVE TrimStart(_)
TrimStart(t) ==
    IF t # <<>> /\ Head(t) = " " THEN TrimStart(Tail(t)) ELSE t

RECURSIVE TrimEnd(_)
TrimEnd(t) ==
    IF t # <<>> /\ t[Len(t)] = " " THEN TrimEnd(SubSeq(t, 1, Len(t) - 1))
    ELSE t

\* String.prototype.trim
Trim(t) == TrimEnd(TrimStart(t))

\* VALID_THINKING_OPTIONS
ValidThinkingOptions ==
    {"inherit", "off", "minimal", "low", "medium", "high", "xhigh"}

\* normalizeModelInput: undefined is no override, a value that is not a string
\* is an error, a string is trimmed and is no override when nothing is left
NormalizeModelInput(value) ==
    CASE value.type = "undefined" -> [ok |-> TRUE, value |-> Undefined]
      [] value.type = "other" -> [ok |-> FALSE, value |-> Undefined]
      [] OTHER ->
           [ok |-> TRUE,
            value |-> IF Trim(value.text) = <<>> THEN Undefined
                      ELSE Str(Trim(value.text))]

\* normalizeThinkingInput: as normalizeModelInput, and what is left of a
\* string must be one of VALID_THINKING_OPTIONS
NormalizeThinkingInput(value) ==
    CASE value.type = "undefined" -> [ok |-> TRUE, value |-> Undefined]
      [] value.type = "other" -> [ok |-> FALSE, value |-> Undefined]
      [] Trim(value.text) = <<>> -> [ok |-> TRUE, value |-> Undefined]
      [] OTHER ->
           IF Len(Trim(value.text)) = 1
              /\ Trim(value.text)[1] \in ValidThinkingOptions
           THEN [ok |-> TRUE, value |-> Str(Trim(value.text))]
           ELSE [ok |-> FALSE, value |-> Undefined]

\* normalizeForkInput: if (typeof value !== "boolean") return { ok: false, ... }
NormalizeForkInputOk(value) == value # "nonboolean"

NoItem ==
    [prompt |-> <<>>, skill |-> Undefined, model |-> Undefined,
     thinking |-> Undefined, fork |-> FALSE]

\* the body of the loop of parseTaskItems, on one entry
ParseTaskEntry(e) ==
    LET prompt == IF e.prompt.type = "string" THEN Trim(e.prompt.text)
                  ELSE <<>>
        skill == IF e.skill.type = "string" THEN Str(Trim(e.skill.text))
                 ELSE Undefined
        model == NormalizeModelInput(e.model)
        thinking == NormalizeThinkingInput(e.thinking)
    IN  CASE ~e.isRecord -> [ok |-> FALSE, item |-> NoItem]
          [] prompt = <<>> /\ skill.text = <<>> -> [ok |-> FALSE, item |-> NoItem]
          [] ~model.ok -> [ok |-> FALSE, item |-> NoItem]
          [] ~thinking.ok -> [ok |-> FALSE, item |-> NoItem]
          [] ~NormalizeForkInputOk(e.fork) -> [ok |-> FALSE, item |-> NoItem]
          [] OTHER ->
               [ok |-> TRUE,
                item |-> [prompt |-> prompt, skill |-> skill,
                          model |-> model.value, thinking |-> thinking.value,
                          fork |-> NormalizeForkInput(e.fork)]]

\* parseTaskItems: return { ok: false, error } from inside the loop
ParseFailure(items, i) == [ok |-> FALSE, items |-> <<>>, failedAt |-> i]

\* parseTaskItems: the loop over rawTasks, from entry i on
RECURSIVE ParseTaskEntriesFrom(_, _, _)
ParseTaskEntriesFrom(raw, i, items) ==
    IF i > Len(raw) THEN [ok |-> TRUE, items |-> items, failedAt |-> 0]
    ELSE IF ~ParseTaskEntry(raw[i]).ok THEN ParseFailure(items, i)
    ELSE ParseTaskEntriesFrom(raw, i + 1,
                              Append(items, ParseTaskEntry(raw[i]).item))

ParseTaskEntries(raw) == ParseTaskEntriesFrom(raw, 1, <<>>)

\* the longest list of entries
MaxRawItems == 2

\* a well-formed entry, and the entries that differ from it in one field, or
\* in two
BaseEntry ==
    [isRecord |-> TRUE, prompt |-> Str(<<"a">>), skill |-> Undefined,
     model |-> Undefined, thinking |-> Undefined, fork |-> "absent"]

RawItems ==
    {[BaseEntry EXCEPT !.isRecord = FALSE]}
    \cup {[BaseEntry EXCEPT !.prompt = v] :
             v \in {Undefined, NotAString, Str(<<>>), Str(<<" ">>),
                    Str(<<" ", "a">>)}}
    \cup {[BaseEntry EXCEPT !.skill = v] :
             v \in {NotAString, Str(<<" ">>), Str(<<"s">>)}}
    \cup {[BaseEntry EXCEPT !.prompt = Str(<<" ">>), !.skill = v] :
             v \in {NotAString, Str(<<" ">>), Str(<<"s", " ">>)}}
    \cup {[BaseEntry EXCEPT !.model = v] :
             v \in {NotAString, Str(<<>>), Str(<<"p", "/", "m">>)}}
    \cup {[BaseEntry EXCEPT !.thinking = v] :
             v \in {NotAString, Str(<<" ">>), Str(<<"bogus">>),
                    Str(<<"high", " ">>), Str(<<"high", "low">>),
                    Str(<<"inherit">>)}}
    \cup {[BaseEntry EXCEPT !.fork = v] :
             v \in {"nonboolean", "true", "false"}}
    \cup {[BaseEntry EXCEPT !.thinking = Str(<<"bogus">>), !.fork = "false"]}

RawLists == UNION {[1 .. n -> RawItems] : n \in 0 .. MaxRawItems}

ParseInit ==
    /\ ProcedureIdle
    /\ ModelIdle /\ ConfigIdle /\ UsageIdle
    /\ SkillIdle /\ RangeIdle /\ LineIdle
    /\ pPc = "called"
    /\ pRaw \in RawLists
    /\ pOut = [ok |-> FALSE, items |-> <<>>, failedAt |-> 0]

\* parseTaskItems(rawTasks)
ParseItems ==
    /\ pPc = "called"
    /\ pOut' = ParseTaskEntries(pRaw)
    /\ pPc' = "returned"
    /\ UNCHANGED <<notParseVars, pRaw>>

ParseNext == ParseItems

ParseSpec == ParseInit /\ [][ParseNext]_vars

(* ---------------------- claims on parseTaskItems ----------------------- *)

\* the text of a field when it is a string, trimmed; empty otherwise
TextOf(v) == IF v.type = "string" THEN Trim(v.text) ELSE <<>>

\* an entry breaks an item rule as the rules are listed: no non-empty prompt
\* and no non-empty skill, a model that is not a string, a thinking value
\* that is not in the enumerated set, a fork that is not a boolean
BreaksListedRule(e) ==
    \/ ~e.isRecord
    \/ TextOf(e.prompt) = <<>> /\ TextOf(e.skill) = <<>>
    \/ e.model.type = "other"
    \/ /\ e.thinking.type # "undefined"
       /\ ~\E o \in ValidThinkingOptions : TextOf(e.thinking) = <<o>>
    \/ e.fork = "nonboolean"

\* the same, a thinking string that is blank counting as omitted
BreaksItemRule(e) ==
    \/ ~e.isRecord
    \/ TextOf(e.prompt) = <<>> /\ TextOf(e.skill) = <<>>
    \/ e.model.type = "other"
    \/ /\ e.thinking.type # "undefined"
       /\ ~(e.thinking.type = "string" /\ TextOf(e.thinking) = <<>>)
       /\ ~\E o \in ValidThinkingOptions : TextOf(e.thinking) = <<o>>
    \/ e.fork = "nonboolean"

\* what the claim asks of the value returned for the entries raw, Breaks
\* being the rule an entry must not break
RejectsAtFirstBroken(raw, out, Breaks(_)) ==
    LET bad == {i \in DOMAIN raw : Breaks(raw[i])}
    IN  IF bad # {}
        THEN /\ ~out.ok
             /\ out.items = <<>>
             /\ out.failedAt \in bad
             /\ \A i \in bad : out.failedAt <= i
        ELSE /\ out.ok
             /\ Len(out.items) = Len(raw)
             /\ \A i \in DOMAIN raw :
                   out.items[i].fork =
                       (raw[i].fork = "true" \/ raw[i].fork = "absent")

RECURSIVE IndexOfSlashFrom(_, _)
IndexOfSlashFrom(t, i) ==
    IF i > Len(t) THEN -1
    ELSE IF t[i] = "/" THEN i - 1
    ELSE IndexOfSlashFrom(t, i + 1)

IndexOfSlash(t) == IndexOfSlashFrom(t, 1)

\* parseProviderModel: the text is cut at its first slash, which must be
\* neither its first nor its last character
ParseProviderModel(text) ==
    LET trimmed == Trim(text)
        slashIndex == IndexOfSlash(trimmed)
    IN  IF slashIndex <= 0 \/ slashIndex = Len(trimmed) - 1
        THEN [ok |-> FALSE, model |-> <<>>]
        ELSE [ok |-> TRUE,
              model |-> <<[provider |-> SubSeq(trimmed, 1, slashIndex),
                           modelId |-> SubSeq(trimmed, slashIndex + 2,
                                              Len(trimmed))]>>]

\* resolveModel: if (modelOverride) parse it; else the model of the context,
\* if any
ResolveModel(modelOverride, ctxModel) ==
    IF modelOverride.type = "string" /\ modelOverride.text # <<>>
    THEN ParseProviderModel(modelOverride.text)
    ELSE [ok |-> TRUE, model |-> ctxModel]

\* (variant: the shared default goes before the item's own model)
ModelOverrideSharedFirst(itemModel, defaultModel) ==
    IF defaultModel.type = "undefined" THEN itemModel ELSE defaultModel

\* resolveTaskConfig: options.item.model ?? options.defaultModel
ModelOverride(itemModel, defaultModel) ==
    IF itemModel.type = "undefined" THEN defaultModel ELSE itemModel

\* What a call makes of the models of a request: normalizeTaskParams
\* normalizes params.model and each tasks[i].model, and prepareTaskExecutions
\* resolves the model of every item, in order, up to the first failure.
RECURSIVE ResolveModelsFrom(_, _, _, _, _)
ResolveModelsFrom(items, defaultModel, ctxModel, i, models) ==
    IF i > Len(items) THEN [status |-> "ok", models |-> models]
    ELSE LET r == ResolveModel(ModelOverride(items[i], defaultModel),
                               ctxModel)
         IN  IF ~r.ok THEN [status |-> "formatError", models |-> <<>>]
             ELSE ResolveModelsFrom(items, defaultModel, ctxModel, i + 1,
                                    Append(models, r.model))

ResolveModels(rawItems, rawShared, ctxModel) ==
    IF \/ ~NormalizeModelInput(rawShared).ok
       \/ \E i \in DOMAIN rawItems : ~NormalizeModelInput(rawItems[i]).ok
    THEN [status |-> "invalid", models |-> <<>>]
    ELSE ResolveModelsFrom(
             [i \in DOMAIN rawItems |-> NormalizeModelInput(rawItems[i]).value],
             NormalizeModelInput(rawShared).value, ctxModel, 1, <<>>)

\* the longest model string
MaxModelLen == 3

ModelChars == {"p", "/", " "}

ModelTexts == UNION {[1 .. n -> ModelChars] : n \in 0 .. MaxModelLen}

\* the values of a model field: absent, not a string, or a string
RawModels == {Undefined, NotAString} \cup {Str(t) : t \in ModelTexts}

\* the model field of the second item: absent or well-formed
SiblingModels == {Undefined, Str(<<"p", "/", "p">>)}

CtxModels == {<<>>, <<[provider |-> <<"c">>, modelId |-> <<"x">>]>>}

ModelInit ==
    /\ ProcedureIdle
    /\ ParseIdle /\ ConfigIdle /\ UsageIdle
    /\ SkillIdle /\ RangeIdle /\ LineIdle
    /\ mPc = "called"
    /\ mItems \in {<<a, b>> : a \in RawModels, b \in SiblingModels}
    /\ mShared \in RawModels
    /\ mCtx \in CtxModels
    /\ mOut = [status |-> "none", models |-> <<>>]

\* normalizeTaskParams, then prepareTaskExecutions
ResolveCall ==
    /\ mPc = "called"
    /\ mOut' = ResolveModels(mItems, mShared, mCtx)
    /\ mPc' = "returned"
    /\ UNCHANGED <<notModelVars, mItems, mShared, mCtx>>

ModelNext == ResolveCall

ModelSpec == ModelInit /\ [][ModelNext]_vars

(* ------------------- claims on the model of an item -------------------- *)

\* a model field holds an override: a string that is not blank
Present(v) == v.type = "string" /\ Trim(v.text) # <<>>

\* provider/modelId
Label(m) == m.provider \o <<"/">> \o m.modelId

\* the model field whose string item i is to use, by the stated precedence
ModelSourceOf(i) ==
    IF Present(mItems[i]) THEN mItems[i]
    ELSE IF Present(mShared) THEN mShared
    ELSE Undefined

\* C22: the model resolved for an item is its own override if present,
\* otherwise the shared default, otherwise the inherited session model,
\* otherwise none; the override of one item leaves its sibling on the shared
\* default.
C22_ModelPrecedence ==
    (mPc = "returned" /\ mOut.status = "ok") =>
        \A i \in DOMAIN mItems :
            IF Present(ModelSourceOf(i))
            THEN /\ mOut.models[i] # <<>>
                 /\ Label(mOut.models[i][1]) = Trim(ModelSourceOf(i).text)
                 /\ mOut.models[i][1].provider # <<>>
                 /\ mOut.models[i][1].modelId # <<>>
            ELSE mOut.models[i] = mCtx

\* the first item overrides the shared default, both well-formed and
\* different, with a session model; the second item has no model of its own
C22_Witness ==
    /\ mPc = "returned" /\ mOut.status = "ok"
    /\ mCtx # <<>>
    /\ Present(mItems[1]) /\ Present(mShared) /\ ~Present(mItems[2])
    /\ Trim(mItems[1].text) # Trim(mShared.text)
    /\ Label(mOut.models[1][1]) = Trim(mItems[1].text)
    /\ Label(mOut.models[2][1]) = Trim(mShared.text)

\* a string has the form provider/modelId with both sides non-empty
HasProviderModelForm(t) ==
    \E k \in 2 .. Len(Trim(t)) - 1 : Trim(t)[k] = "/"

\* C23: every model string of a request, of an item or shared, that has not
\* the form provider/modelId with both sides non-empty ends the call with a
\* format error; none is treated as if no override had been given.  (A
\* request that is rejected for a model field that is not a string has ended
\* as well.)
C23_MalformedModelIsFormatError ==
    mPc = "returned" =>
        \A v \in {mItems[1], mItems[2], mShared} :
            (v.type = "string" /\ ~HasProviderModelForm(v.text))
                => mOut.status \in {"formatError", "invalid"}

(* ======================================================================= *)
(*     task-config.ts: thinking level and tools of the steps of a chain    *)
(* ======================================================================= *)

\* BUILT_IN_TOOLS
BuiltInTools == {"read", "bash", "edit", "write", "grep", "find", "ls"}

\* getBuiltInToolsFromActiveTools: activeTools.filter(isBuiltInToolName)
GetBuiltInToolsFromActiveTools(activeTools) == activeTools \cap BuiltInTools

\* resolveThinkingLevel: thinking === "inherit" ? inherited : thinking
ResolveThinkingLevel(thinking, inherited) ==
    IF thinking = "inherit" THEN inherited ELSE thinking

\* buildSubprocessArgs: --thinking <level>, then --no-tools or --tools <list>
BuildSubprocessArgs(thinkingLevel, tools) ==
    [thinking |-> thinkingLevel,
     flag |-> IF tools = {} THEN "--no-tools" ELSE "--tools",
     tools |-> tools]

\* resolveTaskConfig, its thinking level and tools:
\* resolveThinkingLevel(item.thinking ?? defaultThinking, inheritedThinking)
ResolveTaskConfig(itemThinking, defaultThinking, inherited, tools) ==
    BuildSubprocessArgs(
        ResolveThinkingLevel(IF itemThinking = "none" THEN defaultThinking
                             ELSE itemThinking, inherited),
        tools)

\* the levels the caller switches between, the tools it activates ("mcp":
\* a tool of an extension) and the thinking fields of a request
ParentLevels == {"off", "high"}
ParentToolNames == {"read", "mcp"}
ItemThinkings == {"none", "inherit", "low"}
DefaultThinkings == {"inherit", "medium"}

ConfigInit ==
    /\ ProcedureIdle
    /\ ParseIdle /\ ModelIdle /\ UsageIdle
    /\ SkillIdle /\ RangeIdle /\ LineIdle
    /\ gPc = "start"
    /\ parentThinking \in ParentLevels
    /\ parentTools \in SUBSET ParentToolNames
    /\ inheritedThinking = "off" /\ builtInTools = {}
    /\ gItems \in UNION {[1 .. n -> ItemThinkings] : n \in 1 .. MaxSteps}
    /\ gDefault \in DefaultThinkings
    /\ gStep = 0
    /\ gArgs = [thinking |-> "off", flag |-> "none", tools |-> {}]

\* execute(), lines 845-846: the caller's thinking level and active tools are
\* read once
TakeSnapshot ==
    /\ gPc = "start"
    /\ inheritedThinking' = parentThinking
    /\ builtInTools' = GetBuiltInToolsFromActiveTools(parentTools)
    /\ gPc' = "loop"
    /\ UNCHANGED <<notConfigVars, parentThinking, parentTools, gItems,
                   gDefault, gStep, gArgs>>

\* While a step's subprocess runs, the user or another extension changes the
\* caller's thinking level.
SetThinkingLevel(level) ==
    /\ gPc = "loop"
    /\ level # parentThinking
    /\ parentThinking' = level
    /\ UNCHANGED <<notConfigVars, gPc, parentTools, inheritedThinking,
                   builtInTools, gItems, gDefault, gStep, gArgs>>

\* ... or the caller's set of active tools.
SetActiveTools(tools) ==
    /\ gPc = "loop"
    /\ tools # parentTools
    /\ parentTools' = tools
    /\ UNCHANGED <<notConfigVars, gPc, parentThinking, inheritedThinking,
                   builtInTools, gItems, gDefault, gStep, gArgs>>

\* One turn of the chain loop: resolveTaskConfig for the next item, and the
\* spawn of its subprocess with the arguments resolved.
ConfigStep ==
    /\ gPc = "loop"
    /\ gStep < Len(gItems)
    /\ gStep' = gStep + 1
    /\ gArgs' = ResolveTaskConfig(gItems[gStep + 1], gDefault,
                                  inheritedThinking, builtInTools)
    /\ UNCHANGED <<notConfigVars, gPc, parentThinking, parentTools,
                   inheritedThinking, builtInTools, gItems, gDefault>>

ConfigReturn ==
    /\ gPc = "loop"
    /\ gStep = Len(gItems)
    /\ gPc' = "returned"
    /\ UNCHANGED <<notConfigVars, parentThinking, parentTools,
                   inheritedThinking, builtInTools, gItems, gDefault, gStep,
                   gArgs>>

ConfigNext ==
    \/ TakeSnapshot
    \/ \E level \in ParentLevels : SetThinkingLevel(level)
    \/ \E tools \in SUBSET ParentToolNames : SetActiveTools(tools)
    \/ ConfigStep
    \/ ConfigReturn

ConfigSpec == ConfigInit /\ [][ConfigNext]_vars

(* ------------- claims on the thinking level and the tools -------------- *)

\* the item's override if set, otherwise the shared default
ThinkingOf(i) == IF gItems[i] = "none" THEN gDefault ELSE gItems[i]

\* C24: the thinking level a step is spawned with is its item's override if
\* set, otherwise the shared default, and "inherit" stands for the level the
\* caller has when the configuration of that step is resolved.
C24_InheritIsLevelAtResolution ==
    [][gStep' # gStep =>
          gArgs'.thinking = IF ThinkingOf(gStep') = "inherit"
                            THEN parentThinking
                            ELSE ThinkingOf(gStep')]_vars

\* C25: a subprocess is spawned with an allow-list of built-in tools that the
\* caller has active at the time of the spawn, or with the flag that disables
\* tools when it has none active.
C25_ToolsActiveAtSpawn ==
    [][gStep' # gStep =>
          /\ gArgs'.tools \subseteq (parentTools \cap BuiltInTools)
          /\ gArgs'.flag = IF parentTools \cap BuiltInTools = {}
                           THEN "--no-tools" ELSE "--tools"]_vars

(* ======================================================================= *)
(*                            aggregateUsage                               *)
(* ======================================================================= *)

\* (variant: the turns of a result are not counted)
AddUsageWithoutTurns(total, usage) ==
    [total EXCEPT !.input = @ + usage.input,
                  !.output = @ + usage.output,
                  !.cacheRead = @ + usage.cacheRead,
                  !.cacheWrite = @ + usage.cacheWrite,
                  !.cost = @ + usage.cost]

\* the body of the loop of aggregateUsage
AddUsage(total, usage) ==
    [total EXCEPT !.input = @ + usage.input,
                  !.output = @ + usage.output,
                  !.cacheRead = @ + usage.cacheRead,
                  !.cacheWrite = @ + usage.cacheWrite,
                  !.cost = @ + usage.cost,
                  !.turns = @ + usage.turns]

RECURSIVE AggregateUsageFrom(_, _, _)
AggregateUsageFrom(res, i, total) ==
    IF i > Len(res) THEN total
    ELSE AggregateUsageFrom(res, i + 1, AddUsage(total, res[i]))

\* aggregateUsage
AggregateUsage(res) == AggregateUsageFrom(res, 1, ZeroUsage)

\* the longest list of results
MaxUsageTasks == 2

\* the usage of a result: its token counts from one set, its cost (in a
\* whole unit), its context snapshot and its turns
UsageSamples ==
    {[input |-> a, output |-> b, cacheRead |-> a + b, cacheWrite |-> b,
      cost |-> c, contextTokens |-> x, turns |-> t] :
        a \in {0, 2}, b \in {0, 1}, c \in {0, 3}, x \in {0, 5}, t \in {0, 1}}

UsageInit ==
    /\ ProcedureIdle
    /\ ParseIdle /\ ModelIdle /\ ConfigIdle
    /\ SkillIdle /\ RangeIdle /\ LineIdle
    /\ uPc = "called"
    /\ uResults \in UNION {[1 .. n -> UsageSamples] : n \in 0 .. MaxUsageTasks}
    /\ uTotal = ZeroUsage

Aggregate ==
    /\ uPc = "called"
    /\ uTotal' = AggregateUsage(uResults)
    /\ uPc' = "returned"
    /\ UNCHANGED <<notUsageVars, uResults>>

UsageNext == Aggregate

UsageSpec == UsageInit /\ [][UsageNext]_vars

(* ---------------------- claims on aggregateUsage ----------------------- *)

UsageFields ==
    {"input", "output", "cacheRead", "cacheWrite", "cost", "contextTokens",
     "turns"}

\* the sum of field f over the results from i on
RECURSIVE SumOfField(_, _, _)
SumOfField(res, f, i) ==
    IF i > Len(res) THEN 0 ELSE res[i][f] + SumOfField(res, f, i + 1)

\* C26 as stated: every field of the aggregate is the sum of that field over
\* the tasks, all zero for no task.
C26_EveryFieldSummed ==
    uPc = "returned" =>
        \A f \in UsageFields : uTotal[f] = SumOfField(uResults, f, 1)

\* C26 as amended: every field but contextTokens is the sum of that field
\* over the tasks, and contextTokens is 0; all zero for no task.
C26_CountersSummed ==
    uPc = "returned" =>
        /\ \A f \in UsageFields \ {"contextTokens"} :
              uTotal[f] = SumOfField(uResults, f, 1)
        /\ uTotal.contextTokens = 0
        /\ uResults = <<>> => uTotal = ZeroUsage

\* two results with turns, cost and a context snapshot each
C26_Witness ==
    /\ uPc = "returned"
    /\ Len(uResults) = 2
    /\ \A i \in 1 .. 2 :
          uResults[i].turns = 1 /\ uResults[i].cost = 3
          /\ uResults[i].contextTokens = 5
    /\ uTotal.turns = 2 /\ uTotal.cost = 6

(* ======================================================================= *)
(*              skill-task: /skill: inputs and SKILL.md reads              *)
(* ======================================================================= *)

\* The skills: one whose frontmatter opts in to a subprocess, one whose
\* frontmatter does not, one without a readable SKILL.md.
SkillNames == {"forked", "plain", "ghost"}

\* loadSkillMetadataByName: null when no SKILL.md is found for the name
SkillFound(name) == name # "ghost"

\* loadSkillMetadata(path).subProcess (forkContext in the earlier version):
\* false when the file cannot be read
OptsIn(name) == name = "forked"

\* An input text: a /skill:<name> <prompt> command (cmd the name) or another
\* text (cmd "none").
InputTexts ==
    [cmd : SkillNames \cup {"none"}, prompt : {"", "x"}]

\* parseSkillCommand
ParseSkillCommand(text) ==
    IF text.cmd = "none" THEN <<>>
    ELSE <<[name |-> text.cmd, prompt |-> text.prompt]>>

\* hasTaskTool, and what sendTaskTool does with it: the user message is sent
\* only when the task tool is active, otherwise the user is notified
SendTaskTool(taskActive) == taskActive

\* event.text: the whole input text as a string
RawText(text) ==
    IF text.cmd = "none" THEN text.prompt
    ELSE CASE text.cmd = "forked" ->
                  IF text.prompt = "" THEN "/skill:forked" ELSE "/skill:forked x"
           [] text.cmd = "plain" ->
                  IF text.prompt = "" THEN "/skill:plain" ELSE "/skill:plain x"
           [] text.cmd = "ghost" ->
                  IF text.prompt = "" THEN "/skill:ghost" ELSE "/skill:ghost x"

\* prompt = pendingPrompt ?? lastPrompt ?? ""
ForwardedPrompt(pendingPrompt, last) ==
    IF pendingPrompt # <<>> THEN pendingPrompt[1]
    ELSE IF last # <<>> THEN RawText(last[1])
    ELSE ""

\* (variant: handleInput leaves the command in pendingSkill)
PendingAfterInputKept(cmd) == cmd

\* pendingSkill when handleInput returns or reaches its await: null for a
\* text that is no command; else the command, then null again on each of the
\* three paths (no metadata, not opted in: before the await of
\* applySkillOverrides, opted in: before sendTaskTool)
PendingAfterInput(cmd) ==
    IF cmd = <<>> THEN <<>>
    ELSE LET name == cmd[1].name
         IN  IF ~SkillFound(name) THEN <<>>
             ELSE IF ~OptsIn(name) THEN <<>>
             ELSE <<>>

SkillInit ==
    /\ ProcedureIdle
    /\ ParseIdle /\ ModelIdle /\ ConfigIdle
    /\ UsageIdle /\ RangeIdle /\ LineIdle
    /\ kTaskActive \in BOOLEAN
    /\ lastPrompt = <<>> /\ pendingSkill = <<>>
    /\ appliedOverrideSkills = {} /\ kAwait = <<>> /\ kMessages = {}
    /\ kLast = NoHandler

\* The set of active tools changes: the task tool is switched on or off.
ToggleTaskTool ==
    /\ kTaskActive' = ~kTaskActive
    /\ UNCHANGED <<notSkillVars, lastPrompt, pendingSkill,
                   appliedOverrideSkills, kAwait, kMessages, kLast>>

\* handleInput for an input that an extension sent: ignored
HandleExtensionInput ==
    /\ kLast' = [NoHandler EXCEPT !.handler = "input", !.result = "undefined"]
    /\ UNCHANGED <<notSkillVars, kTaskActive, lastPrompt, pendingSkill,
                   appliedOverrideSkills, kAwait, kMessages>>

\* handleInput, up to its return or to its await of applySkillOverrides
HandleInput(text) ==
    LET cmd == ParseSkillCommand(text)
        name == IF cmd = <<>> THEN "none" ELSE cmd[1].name
    IN  /\ lastPrompt' = <<text>>
        /\ pendingSkill' = PendingAfterInput(cmd)
        /\ IF cmd = <<>> \/ ~SkillFound(name)
           THEN /\ kLast' = [NoHandler EXCEPT !.handler = "input",
                                              !.skill = name,
                                              !.result = "undefined"]
                /\ UNCHANGED <<kAwait, kMessages>>
           ELSE IF ~OptsIn(name)
           THEN /\ kAwait = <<>>
                /\ kAwait' = <<name>>
                /\ kLast' = [NoHandler EXCEPT !.handler = "input",
                                              !.skill = name,
                                              !.result = "undefined"]
                /\ UNCHANGED kMessages
           ELSE /\ kMessages' = IF SendTaskTool(kTaskActive)
                                THEN kMessages \cup {name} ELSE kMessages
                /\ kLast' = [handler |-> "input", skill |-> name,
                             result |-> "handled",
                             sent |-> SendTaskTool(kTaskActive),
                             prompt |-> cmd[1].prompt]
                /\ UNCHANGED kAwait
        /\ UNCHANGED <<notSkillVars, kTaskActive, appliedOverrideSkills>>

\* handleToolCall for a tool other than read, or a path that is no SKILL.md
HandleOtherToolCall ==
    /\ kLast' = [NoHandler EXCEPT !.handler = "tool_call",
                                  !.result = "undefined"]
    /\ UNCHANGED <<notSkillVars, kTaskActive, lastPrompt, pendingSkill,
                   appliedOverrideSkills, kAwait, kMessages>>

\* handleToolCall for a read of the SKILL.md of a skill, up to its return or
\* to its await of applySkillOverrides
HandleToolCall(name) ==
    LET consumed == pendingSkill # <<>> /\ pendingSkill[1].name = name
        pendingPrompt == IF consumed THEN <<pendingSkill[1].prompt>> ELSE <<>>
    IN  /\ pendingSkill' = IF consumed THEN <<>> ELSE pendingSkill
        /\ IF ~OptsIn(name)
           THEN /\ IF name \in appliedOverrideSkills
                   THEN UNCHANGED kAwait
                   ELSE kAwait = <<>> /\ kAwait' = <<name>>
                /\ kLast' = [NoHandler EXCEPT !.handler = "tool_call",
                                              !.skill = name,
                                              !.result = "undefined"]
                /\ UNCHANGED kMessages
           ELSE /\ kMessages' = IF SendTaskTool(kTaskActive)
                                THEN kMessages \cup {name} ELSE kMessages
                /\ kLast' = [handler |-> "tool_call", skill |-> name,
                             result |-> "block",
                             sent |-> SendTaskTool(kTaskActive),
                             prompt |-> ForwardedPrompt(pendingPrompt,
                                                        lastPrompt)]
                /\ UNCHANGED kAwait
        /\ UNCHANGED <<notSkillVars, kTaskActive, lastPrompt,
                       appliedOverrideSkills>>

\* applySkillOverrides has returned: appliedOverrideSkills.add(name)
OverridesApplied ==
    /\ kAwait # <<>>
    /\ appliedOverrideSkills' = appliedOverrideSkills \cup {kAwait[1]}
    /\ kAwait' = <<>>
    /\ UNCHANGED <<notSkillVars, kTaskActive, lastPrompt, pendingSkill,
                   kMessages, kLast>>

\* handleTurnEnd: appliedOverrideSkills.clear()
HandleTurnEnd ==
    /\ appliedOverrideSkills # {}
    /\ appliedOverrideSkills' = {}
    /\ UNCHANGED <<notSkillVars, kTaskActive, lastPrompt, pendingSkill, kAwait,
                   kMessages, kLast>>

SkillNext ==
    \/ ToggleTaskTool
    \/ HandleExtensionInput
    \/ \E text \in InputTexts : HandleInput(text)
    \/ HandleOtherToolCall
    \/ \E name \in SkillNames : HandleToolCall(name)
    \/ OverridesApplied
    \/ HandleTurnEnd

SkillSpec == SkillInit /\ [][SkillNext]_vars

(* ------------------------ claims on skill-task ------------------------- *)

\* C28: whenever a handler has handled a /skill: input or blocked the read of
\* a SKILL.md, it has sent the task-tool request message for that skill.
C28_HandledSkillWasSent ==
    kLast.result \in {"handled", "block"} =>
        /\ kLast.sent
        /\ kLast.skill \in kMessages

\* C39: pendingSkill is null whenever a handler is entered or suspended, so
\* handleToolCall never consumes a pending prompt: the prompt it forwards is
\* lastPrompt, or the empty string when there has been no input yet.
C39_PendingSkillNeverSeen ==
    /\ pendingSkill = <<>>
    /\ (kLast.handler = "tool_call" /\ kLast.result = "block") =>
           kLast.prompt = IF lastPrompt = <<>> THEN ""
                          ELSE RawText(lastPrompt[1])

\* the input /skill:forked x was handled and the agent then read the
\* SKILL.md of that skill: the read was blocked and the whole input text was
\* forwarded as the prompt, not the prompt of the command
C39_Witness ==
    /\ lastPrompt = <<[cmd |-> "forked", prompt |-> "x"]>>
    /\ kLast.handler = "tool_call"
    /\ kLast.skill = "forked"
    /\ kLast.result = "block"
    /\ kLast.sent
    /\ kLast.prompt = "/skill:forked x"

(* ======================================================================= *)
(*                  files extension: mergeRanges                           *)
(* ======================================================================= *)

\* the greatest line number of a range text
MaxLine == 3

\* the decimal digits; a line number up to 9 is written as one of them
DigitChars == <<"0", "1", "2", "3", "4", "5", "6", "7", "8", "9">>

DigitValue(c) == CHOOSE d \in 0 .. 9 : DigitChars[d + 1] = c

IsDigit(c) == \E d \in 0 .. 9 : DigitChars[d + 1] = c

\* "not a number"
NaN == -1

\* Number.parseInt(t, 10) of a text without sign and white space: the number
\* its leading digits spell, NaN when it starts with none
RECURSIVE ParseIntFrom(_, _, _)
ParseIntFrom(t, i, acc) ==
    IF i > Len(t) \/ ~IsDigit(t[i]) THEN acc
    ELSE ParseIntFrom(t, i + 1,
                      (IF acc = NaN THEN 0 ELSE acc * 10) + DigitValue(t[i]))

ParseInt(t) == ParseIntFrom(t, 1, NaN)

\* String(n) for 0 <= n <= 9
NumberText(n) == <<DigitChars[n + 1]>>

\* text.split(","): the parts between the commas
RECURSIVE SplitCommaFrom(_, _, _)
SplitCommaFrom(t, i, cur) ==
    IF i > Len(t) THEN <<cur>>
    ELSE IF t[i] = "," THEN <<cur>> \o SplitCommaFrom(t, i + 1, <<>>)
    ELSE SplitCommaFrom(t, i + 1, Append(cur, t[i]))

SplitComma(t) == SplitCommaFrom(t, 1, <<>>)

\* raw.replace(/L/gi, "")
StripL(t) == SelectSeq(t, LAMBDA c : c \notin {"L", "l"})

\* cleaned.indexOf("-"), counted from 0; -1 when there is none
RECURSIVE IndexOfDashFrom(_, _)
IndexOfDashFrom(t, i) ==
    IF i > Len(t) THEN -1
    ELSE IF t[i] = "-" THEN i - 1
    ELSE IndexOfDashFrom(t, i + 1)

\* parseRangePart: <<>> for null, else <<[start, end]>>
ParseRangePart(part) ==
    LET dashIndex == IndexOfDashFrom(part, 1)
        start == ParseInt(SubSeq(part, 1, dashIndex))
        end == ParseInt(SubSeq(part, dashIndex + 2, Len(part)))
        value == ParseInt(part)
    IN  IF part = <<>> THEN <<>>
        ELSE IF dashIndex >= 0
        THEN IF start # NaN /\ end # NaN /\ start > 0 /\ end >= start
             THEN <<[start |-> start, end |-> end]>>
             ELSE <<>>
        ELSE IF value # NaN /\ value > 0
        THEN <<[start |-> value, end |-> value]>>
        ELSE <<>>

\* the loop that parses the parts into normalized
RECURSIVE NormalizeParts(_)
NormalizeParts(parts) ==
    IF parts = <<>> THEN <<>>
    ELSE ParseRangePart(StripL(Head(parts))) \o NormalizeParts(Tail(parts))

\* the order of normalized.sort: a.start - b.start || a.end - b.end
RangeBefore(a, b) ==
    a.start < b.start \/ (a.start = b.start /\ a.end <= b.end)

RECURSIVE InsertRange(_, _)
InsertRange(sorted, r) ==
    IF sorted = <<>> THEN <<r>>
    ELSE IF RangeBefore(r, Head(sorted)) THEN <<r>> \o sorted
    ELSE <<Head(sorted)>> \o InsertRange(Tail(sorted), r)

RECURSIVE SortRanges(_)
SortRanges(ranges) ==
    IF ranges = <<>> THEN <<>>
    ELSE InsertRange(SortRanges(Tail(ranges)), Head(ranges))

\* (variant: a range that only touches the last one starts a new one)
StartsNewRangeOnTouch(range, last) == range.start > last.end

\* range.start > last.end + 1
StartsNewRange(range, last) == range.start > last.end + 1

\* the loop that builds merged
RECURSIVE MergeSorted(_, _)
MergeSorted(sorted, merged) ==
    IF sorted = <<>> THEN merged
    ELSE IF merged = <<>> \/ StartsNewRange(Head(sorted), merged[Len(merged)])
    THEN MergeSorted(Tail(sorted), Append(merged, Head(sorted)))
    ELSE MergeSorted(Tail(sorted),
             [merged EXCEPT ![Len(merged)].end = Max(@, Head(sorted).end)])

\* r.start === r.end ? `${r.start}` : `${r.start}-${r.end}`
FormatRange(r) ==
    IF r.start = r.end THEN NumberText(r.start)
    ELSE NumberText(r.start) \o <<"-">> \o NumberText(r.end)

\* .join(",")
RECURSIVE JoinComma(_)
JoinComma(texts) ==
    IF texts = <<>> THEN <<>>
    ELSE IF Len(texts) = 1 THEN texts[1]
    ELSE texts[1] \o <<",">> \o JoinComma(Tail(texts))

\* mergeRanges
MergeRanges(existing, incoming) ==
    LET parts == SelectSeq(SplitComma(existing.text) \o SplitComma(incoming.text),
                           LAMBDA q : q # <<>>)
        merged == MergeSorted(SortRanges(NormalizeParts(parts)), <<>>)
    IN  IF parts = <<>> THEN Undefined
        ELSE Str(JoinComma([i \in DOMAIN merged |-> FormatRange(merged[i])]))

\* the parts a range text is made of: a line number (0 included), a range
\* (well-formed or not), a part with the L of a line anchor, an empty part,
\* a part that is no number
RangeParts ==
    {NumberText(n) : n \in 0 .. MaxLine}
    \cup {NumberText(a) \o <<"-">> \o NumberText(b) :
             a \in 0 .. MaxLine, b \in {MaxLine - 1, MaxLine}}
    \cup {<<"L", "2">>, <<>>, <<"x">>}

\* the range texts: up to two parts
RangeTexts ==
    {<<>>} \cup RangeParts
    \cup {a \o <<",">> \o b : a \in RangeParts, b \in RangeParts}

RangeInputs == {Undefined} \cup {Str(t) : t \in RangeTexts}

RangeInit ==
    /\ ProcedureIdle
    /\ ParseIdle /\ ModelIdle /\ ConfigIdle
    /\ UsageIdle /\ SkillIdle /\ LineIdle
    /\ rPc = "called"
    /\ rExisting \in RangeInputs
    /\ rIncoming \in RangeInputs
    /\ rOut = Undefined

MergeCall ==
    /\ rPc = "called"
    /\ rOut' = MergeRanges(rExisting, rIncoming)
    /\ rPc' = "returned"
    /\ UNCHANGED <<notRangeVars, rExisting, rIncoming>>

RangeNext == MergeCall

RangeSpec == RangeInit /\ [][RangeNext]_vars

(* ------------------------ claims on mergeRanges ------------------------ *)

\* the lines a part of a range text stands for: those of "n" and of "a-b"
\* with 0 < a <= b, an L before a number being left out
LinesOfPart(part) ==
    LET t == StripL(part)
    IN  {n \in 1 .. 9 :
            \/ t = NumberText(n)
            \/ \E a \in 1 .. n, b \in n .. 9 :
                  t = NumberText(a) \o <<"-">> \o NumberText(b)}

\* the lines of a range text
LinesOf(v) ==
    UNION {LinesOfPart(SplitComma(v.text)[i]) :
              i \in DOMAIN SplitComma(v.text)}

\* the text that lists, in ascending order, the maximal runs of the lines L
\* from line n on; open: the start of the run that line n - 1 is in, 0 if none
RECURSIVE RunsText(_, _, _)
RunsText(L, n, open) ==
    IF n > 10 THEN <<>>
    ELSE IF n \in L THEN RunsText(L, n + 1, IF open = 0 THEN n ELSE open)
    ELSE IF open = 0 THEN RunsText(L, n + 1, 0)
    ELSE <<[start |-> open, end |-> n - 1]>> \o RunsText(L, n + 1, 0)

ExpectedText(L) ==
    JoinComma([i \in DOMAIN RunsText(L, 1, 0) |->
                  FormatRange(RunsText(L, 1, 0)[i])])

\* both arguments are empty or absent
NoPart(v) == \A i \in DOMAIN SplitComma(v.text) : SplitComma(v.text)[i] = <<>>

\* C29: mergeRanges returns the ascending comma-separated list of the maximal
\* line ranges that cover exactly the lines of both arguments (overlapping
\* and adjacent ranges merged), undefined when both are empty or absent, and
\* the same for the arguments in either order.
C29_MergeIsUnionOfLines ==
    rPc = "returned" =>
        /\ IF NoPart(rExisting) /\ NoPart(rIncoming)
           THEN rOut = Undefined
           ELSE rOut = Str(ExpectedText(LinesOf(rExisting) \cup LinesOf(rIncoming)))
        /\ rOut = MergeRanges(rIncoming, rExisting)

\* "1,3" and "2" give "1-3"
C29_Witness ==
    /\ rPc = "returned"
    /\ rExisting = Str(<<"1", ",", "3">>)
    /\ rIncoming = Str(<<"2">>)
    /\ rOut = Str(<<"1", "-", "3">>)

(* ======================================================================= *)
(*            runSingleTask: the lines of the stdout stream                *)
(* ======================================================================= *)

\* The stream is a sequence of characters: "nl" the newline, " " white
\* space, and pieces of text.  The texts that are JSON:
\*   A1 A2  {type: message_end, message: an assistant message with usage}
\*   E      {type: message_end, message: an assistant message of model m1
\*           with stop reason error, error message e1 and a usage of input
\*           and output only}
\*   F      {type: message_end, message: an assistant message of model m2
\*           with error message e2, no stop reason, and a full usage}
\*   B      {type: message_end, message: an assistant message, no usage}
\*   U      {type: message_end, message: a user message}
\*   T      {type: tool_result_end, message: a toolResult message}
\*   O      {type: turn_end, message: an assistant message}
\*   R      {type: message_end, message: a message of role system}
\*   N      a number
\* Every other text ("x", "A1", "A2 A1", "U U", ...) is not JSON.
\* A1 A2 has no model and no error message, stop reason stop, a full usage.
StreamChars ==
    {"nl", " ", "A1", "A2", "E", "F", "B", "U", "T", "O", "R", "N", "x"}

\* a usage; a field the usage lacks reads as 0 (usage.input ?? 0, ...)
Usage(input, output, cacheRead, cacheWrite, cost, totalTokens) ==
    [input |-> input, output |-> output, cacheRead |-> cacheRead,
     cacheWrite |-> cacheWrite, cost |-> cost, totalTokens |-> totalTokens]

NotJson == [json |-> "none", name |-> "", type |-> "", role |-> "",
            model |-> "", stopReason |-> "none", errorMessage |-> "",
            hasUsage |-> FALSE, usage |-> Usage(0, 0, 0, 0, 0, 0)]

\* JSON.parse(text), white space around the value being skipped
JsonParse(text) ==
    LET t == Trim(text)
        message(name, type, role) ==
            [NotJson EXCEPT !.json = "object", !.name = name,
                            !.type = type, !.role = role]
    IN  CASE t = <<"A1", "A2">> ->
                 [message("A", "message_end", "assistant") EXCEPT
                      !.stopReason = "stop", !.hasUsage = TRUE,
                      !.usage = Usage(2, 3, 1, 4, 5, 7)]
          [] t = <<"E">> ->
                 [message("E", "message_end", "assistant") EXCEPT
                      !.model = "m1", !.stopReason = "error",
                      !.errorMessage = "e1", !.hasUsage = TRUE,
                      !.usage = Usage(1, 1, 0, 0, 0, 0)]
          [] t = <<"F">> ->
                 [message("F", "message_end", "assistant") EXCEPT
                      !.model = "m2", !.errorMessage = "e2",
                      !.hasUsage = TRUE, !.usage = Usage(1, 2, 3, 1, 2, 9)]
          [] t = <<"B">> -> message("B", "message_end", "assistant")
          [] t = <<"U">> -> message("U", "message_end", "user")
          [] t = <<"T">> -> message("T", "tool_result_end", "toolResult")
          [] t = <<"O">> -> message("O", "turn_end", "assistant")
          [] t = <<"R">> -> message("R", "message_end", "system")
          [] t = <<"N">> -> [NotJson EXCEPT !.json = "number"]
          [] OTHER -> NotJson

\* parseJsonLine: undefined (<<>>) for a blank line, for a line JSON.parse
\* throws on, and for a value that is not an object
ParseJsonLine(line) ==
    IF Trim(line) = <<>> THEN <<>>
    ELSE IF JsonParse(line).json = "object" THEN <<JsonParse(line)>>
    ELSE <<>>

\* (variant: a message of any role is a message)
IsMessageOfAnyRole(event) == TRUE

\* isMessage(event.message)
IsMessage(event) == event.role \in {"assistant", "user", "toolResult"}

\* (variant: the model of the latest message that names one)
HandleModelLastWins(old, new) == IF new # "" THEN new ELSE old

\* handleEventMessage: if (!result.model && message.model) result.model = ...
HandleModel(old, new) == IF old = "" /\ new # "" THEN new ELSE old

\* handleEventMessage: if (message.errorMessage) result.errorMessage = ...
HandleErrorMessage(old, new) == IF new # "" THEN new ELSE old

\* (variant: a user message is given to applyAssistantUsage too)
IsAssistantOrUser(message) == message.role \in {"assistant", "user"}

\* handleEventMessage: if (message.role !== "assistant") return
IsAssistant(message) == message.role = "assistant"

\* handleEventMessage with applyAssistantUsage, on st = [result, updates,
\* skipped, raised]: an assistant message without usage makes applyAssistantUsage
\* throw after the message was pushed and the turn counted
HandleEventMessage(st, message) ==
    LET pushed == [st.result EXCEPT !.messages = Append(@, message.name)]
    IN  IF ~IsAssistant(message) THEN [st EXCEPT !.result = pushed]
        ELSE IF ~message.hasUsage
        THEN [st EXCEPT !.result = [pushed EXCEPT !.turns = @ + 1],
                        !.raised = TRUE]
        ELSE [st EXCEPT !.result =
                 [pushed EXCEPT
                     !.turns = @ + 1,
                     !.input = @ + message.usage.input,
                     !.output = @ + message.usage.output,
                     !.cacheRead = @ + message.usage.cacheRead,
                     !.cacheWrite = @ + message.usage.cacheWrite,
                     !.cost = @ + message.usage.cost,
                     !.contextTokens = message.usage.totalTokens,
                     !.model = HandleModel(@, message.model),
                     !.stopReason = HandleStopReason(@, message.stopReason),
                     !.errorMessage =
                         HandleErrorMessage(@, message.errorMessage)]]

\* processLine
ProcessLine(st, line) ==
    LET event == ParseJsonLine(line)
        early == [st EXCEPT !.skipped = @ + 1]
    IN  IF event = <<>> THEN early
        ELSE IF event[1].type \in {"message_end", "tool_result_end"}
                /\ IsMessage(event[1])
        THEN LET handled == HandleEventMessage(st, event[1])
             IN  IF handled.raised THEN handled
                 ELSE [handled EXCEPT !.updates = @ + 1]
        ELSE early

\* for (const line of lines) processLine(line), left when a call throws
RECURSIVE ProcessLines(_, _)
ProcessLines(st, lines) ==
    IF lines = <<>> \/ st.raised THEN st
    ELSE ProcessLines(ProcessLine(st, Head(lines)), Tail(lines))

\* buffer.split("\n")
RECURSIVE SplitLinesFrom(_, _, _)
SplitLinesFrom(t, i, cur) ==
    IF i > Len(t) THEN <<cur>>
    ELSE IF t[i] = "nl" THEN <<cur>> \o SplitLinesFrom(t, i + 1, <<>>)
    ELSE SplitLinesFrom(t, i + 1, Append(cur, t[i]))

SplitLines(t) == SplitLinesFrom(t, 1, <<>>)

\* the greatest number of "data" events of a stream
MaxChunks == 3

\* the chunks of a "data" event: one or two characters
Chunks == UNION {[1 .. n -> StreamChars] : n \in {1, 2}}

\* the state the calls of processLine of one handler start from
LineState == [result |-> lResult, updates |-> lUpdates, skipped |-> lSkipped,
              raised |-> FALSE]

LineInit ==
    /\ ProcedureIdle
    /\ ParseIdle /\ ModelIdle /\ ConfigIdle
    /\ UsageIdle /\ SkillIdle /\ RangeIdle
    /\ lPc = "open" /\ buffer = <<>> /\ lResult = NewResult /\ lUpdates = 0
    /\ lSkipped = 0 /\ lChunks = 0 /\ lChunk = <<>>

\* what a handler leaves behind, st the state its calls of processLine led to
AfterLines(st, pc) ==
    /\ lResult' = st.result
    /\ lUpdates' = st.updates
    /\ lSkipped' = st.skipped
    /\ lPc' = IF st.raised THEN "raised" ELSE pc

\* (variant: the text after the last newline is not kept)
PopDropped(lines) == <<>>

\* buffer = lines.pop() ?? ""
Pop(lines) == lines[Len(lines)]

\* the "data" handler on l = [st, buffer]: buffer += data;
\* lines = buffer.split("\n"); buffer = lines.pop(); every line is processed
OnData(l, chunk) ==
    LET lines == SplitLines(l.buffer \o chunk)
    IN  [st |-> ProcessLines(l.st, SubSeq(lines, 1, Len(lines) - 1)),
         buffer |-> Pop(lines)]

\* proc.stdout.on("data")
StdoutData(chunk) ==
    LET after == OnData([st |-> LineState, buffer |-> buffer], chunk)
    IN  /\ lPc = "open"
        /\ lChunks < MaxChunks
        /\ Len(after.buffer) \in {0, 1, 2}
        /\ buffer' = after.buffer
        /\ AfterLines(after.st, "open")
        /\ lChunks' = lChunks + 1
        /\ lChunk' = chunk
        /\ UNCHANGED notLineVars

\* proc.on("close"): if (buffer.trim()) processLine(buffer)
StdoutClose ==
    /\ lPc = "open"
    /\ AfterLines(IF Trim(buffer) = <<>> THEN LineState
                  ELSE ProcessLine(LineState, buffer),
                  "closed")
    /\ UNCHANGED <<notLineVars, buffer, lChunks, lChunk>>

LineNext ==
    \/ \E chunk \in Chunks : StdoutData(chunk)
    \/ StdoutClose

LineSpec == LineInit /\ [][LineNext]_vars

\* ---- the lines a step of the stream handles ----
\* a "data" step handles the complete lines of buffer + chunk, the close
\* step the buffered text
LinesOfStep ==
    IF lChunks' = lChunks + 1
    THEN LET lines == SplitLines(buffer \o lChunk')
         IN  SubSeq(lines, 1, Len(lines) - 1)
    ELSE <<buffer>>

\* a line that is not accepted: blank, not JSON, JSON that is not an object,
\* of an unrecognized type, or with a message of a role outside
\* assistant/user/toolResult
NotAccepted(line) ==
    \/ Trim(line) = <<>>
    \/ JsonParse(line).json # "object"
    \/ JsonParse(line).type \notin {"message_end", "tool_result_end"}
    \/ JsonParse(line).role \notin {"assistant", "user", "toolResult"}

AcceptedLine(line) == ~NotAccepted(line)

\* an accepted assistant message without the usage field
WithoutUsage(line) ==
    /\ AcceptedLine(line)
    /\ JsonParse(line).role = "assistant"
    /\ ~JsonParse(line).hasUsage

MessagesOf(lines) == [i \in 1 .. Len(lines) |-> JsonParse(lines[i]).name]

\* C30: every stdout line that is not accepted (blank, non-JSON, JSON that
\* is not an object, an unrecognized type, a message of a role outside
\* assistant/user/toolResult) is a no-op.  In every step of the stream whose
\* accepted lines all carry usage, the message log grows by exactly the
\* messages of the accepted lines in order, the streaming callback fires once
\* per accepted line, and no error is raised; a step with no accepted line
\* leaves the result as it was.  So a line that is not accepted changes
\* nothing and hides no accepted line after it, in the same chunk or a later
\* one.
C30_RejectedLineIsNoOp ==
    [][LET accepted == SelectSeq(LinesOfStep, AcceptedLine)
       IN  /\ lPc = "open"
           /\ \A i \in 1 .. Len(accepted) : ~WithoutUsage(accepted[i])
           => /\ lResult'.messages = lResult.messages \o MessagesOf(accepted)
              /\ lUpdates' = lUpdates + Len(accepted)
              /\ lPc' # "raised"
              /\ accepted = <<>> => lResult' = lResult]_vars

\* a line that is not JSON was skipped, and the assistant message that
\* arrived after it, split over two chunks, is in the log
C30_Witness ==
    /\ lPc = "open"
    /\ lChunks = MaxChunks
    /\ lChunk = <<"A2", "nl">>
    /\ buffer = <<>>
    /\ lSkipped = 1
    /\ lResult.messages = <<"A">>
    /\ lResult.turns = 1
    /\ lUpdates = 1

\* ---- what the accepted lines of a step add up to ----
AssistantLine(line) == AcceptedLine(line) /\ JsonParse(line).role = "assistant"

RECURSIVE SumOfUsage(_, _)
SumOfUsage(lines, field) ==
    IF lines = <<>> THEN 0
    ELSE JsonParse(Head(lines)).usage[field] + SumOfUsage(Tail(lines), field)

SummedFields == {"input", "output", "cacheRead", "cacheWrite", "cost"}

\* the effect the accepted lines of a step are to have: the log grows by
\* their messages in order, the callback fires once per line, every
\* assistant message counts one turn and adds its five values to the totals,
\* and the snapshot is the total of the latest assistant message
AcceptedEffect(accepted) ==
    LET assistants == SelectSeq(accepted, AssistantLine)
    IN  /\ lResult'.messages = lResult.messages \o MessagesOf(accepted)
        /\ lUpdates' = lUpdates + Len(accepted)
        /\ lResult'.turns = lResult.turns + Len(assistants)
        /\ \A f \in SummedFields :
               lResult'[f] = lResult[f] + SumOfUsage(assistants, f)
        /\ lResult'.contextTokens =
               IF assistants = <<>> THEN lResult.contextTokens
               ELSE JsonParse(assistants[Len(assistants)]).usage.totalTokens

\* C31: each accepted event appends its message to the message log in
\* stream order and then invokes the streaming callback exactly once; an
\* assistant message also adds one to the turn count, adds its input,
\* output, cacheRead, cacheWrite and cost to the totals and overwrites the
\* context-token snapshot with its total.  Stated of every step of the
\* stream and the accepted lines it handles.
C31_AcceptedEventEffect ==
    [][lPc = "open" => AcceptedEffect(SelectSeq(LinesOfStep, AcceptedLine))]_vars

\* the same, of the steps whose accepted assistant messages all carry a usage
C31_AcceptedEventEffectWithUsage ==
    [][LET accepted == SelectSeq(LinesOfStep, AcceptedLine)
       IN  /\ lPc = "open"
           /\ \A i \in 1 .. Len(accepted) : ~WithoutUsage(accepted[i])
           => AcceptedEffect(accepted)]_vars

\* ---- the assistant messages of the log ----
\* the message a name of the log stands for
MessageNamed(name) ==
    JsonParse(IF name = "A" THEN <<"A1", "A2">> ELSE <<name>>)

\* the values of one field over the assistant messages of the log that
\* report one, in stream order
RECURSIVE ReportedFrom(_, _, _, _)
ReportedFrom(log, i, field, none) ==
    IF i > Len(log) THEN <<>>
    ELSE LET m == MessageNamed(log[i])
         IN  (IF m.role = "assistant" /\ m[field] # none
              THEN <<m[field]>> ELSE <<>>)
             \o ReportedFrom(log, i + 1, field, none)

Reported(field, none) == ReportedFrom(lResult.messages, 1, field, none)

FirstOr(values, none) == IF values = <<>> THEN none ELSE values[1]

LastOr(values, none) == IF values = <<>> THEN none ELSE values[Len(values)]

C35_MissingUsageIsHarmless ==
    [][LET accepted == SelectSeq(LinesOfStep, AcceptedLine)
           assistants == SelectSeq(accepted, AssistantLine)
       IN  /\ lPc = "open"
           /\ \E i \in 1 .. Len(accepted) : WithoutUsage(accepted[i])
           => /\ lPc' # "raised"
              /\ lResult'.messages = lResult.messages \o MessagesOf(accepted)
              /\ lResult'.turns = lResult.turns + Len(assistants)
              /\ \A f \in SummedFields :
                     lResult'[f] = lResult[f] + SumOfUsage(assistants, f)]_vars

\* C36: at every point during a task, usage.turns equals the number of
\* assistant-role messages in its message log.
C36_TurnsCountAssistantMessages ==
    lPc \in {"open", "closed", "raised"}
    => lResult.turns =
           Cardinality({i \in 1 .. Len(lResult.messages) :
                           MessageNamed(lResult.messages[i]).role = "assistant"})

\* the log holds an assistant message, a user message and an assistant
\* message without usage, on which the handler raised: two turns
C36_Witness ==
    /\ lPc = "raised"
    /\ lResult.messages = <<"E", "U", "B">>
    /\ lResult.turns = 2

====
